---- MODULE Spec2Model ----
(***************************************************************************)
(* Model of the cryptic authentication core: AuthService (login, signup,   *)
(* link / unlink of OAuth2 accounts) over the in-memory user repository,   *)
(* the password manager and the token service.                             *)
(*                                                                         *)
(* Every request runs in a slot of Procs.  A handler is cut at the awaited *)
(* calls on the user repository: each repository call takes the           *)
(* repository's mutex for the length of the call, so one call is one       *)
(* atomic step and two requests interleave only between calls.  The steps  *)
(* of a handler in between (hashing, the provider exchange, building the   *)
(* User value, issuing tokens) touch no shared state and are folded into   *)
(* the neighbouring step.  Timestamps of User (created_at, updated_at)     *)
(* are not modelled: no operation reads them.                              *)
(*                                                                         *)
(* Spec runs the operations that write the store in two slots, SeqSpec in  *)
(* one; TokenSpec runs the token operations, which write nothing, on the   *)
(* stores signups build.                                                   *)
(***************************************************************************)
EXTENDS Integers, Sequences, FiniteSets, TLC

\* ------------------------------------------------------------------ bounds
MaxOps == 3          \* requests started in one behaviour
MaxIds == 2          \* fresh internal ids (uuid v4) handed out
MaxTime == 1         \* ticks of the clock
MaxTokenTime == 2    \* ticks of the clock where the token operations run

\* ------------------------------------------------------------ input spaces
Procs == {1, 2}
Providers == {"Google", "GitHub"}
Identifiers == {"alice@example.com", "Alice@example.com"}
Passwords == {"", "pw1", "pw2"}
Subjects == {"s1", "s2"}

\* Option<T>: None is the empty sequence, Some(x) the one-element sequence.
None == << >>
Some(x) == << x >>
IsSome(o) == o # << >>
Unwrap(o) == o[1]

VARIABLES
    users,       \* InMemoryUserRepo.users: Vec<User>, in insertion order
    nextId,      \* number of uuids generated so far (fresh ids are nextId + 1, ...)
    now,         \* the clock the token service reads
    proc,        \* per request slot: position, arguments, locals, returned value
    opsStarted,  \* requests started so far
    signups,     \* history: (identifier, password, id) of every signup(Credentials) that returned Ok
    configs,     \* OAuth2Manager.configs: per provider, its OAuth2Config if it has one
    auth_vars    \* AuthService.vars: the lifetimes the token service was built with

vars == << users, nextId, now, proc, opsStarted, signups, configs, auth_vars >>

\* ------------------------------------------------------------- data model
\* HashMap<OAuth2Provider, OAuth2UserInfo> with no entry.
NoAccounts == [p \in Providers |-> None]

\* User::default(): no credentials, no linked accounts.
User_default == [id |-> 0, credentials |-> None, oauth_accounts |-> NoAccounts]

\* OAuth2UserInfo as parse_user_info builds it: user_id is the empty string
\* (0 here, no internal id is 0), updated_at the time of the fetch.
OAuth2UserInfo(provider, sub, email, name, t) ==
    [user_id |-> 0, provider |-> provider, provider_user_id |-> sub,
     email |-> email, name |-> name, verified_email |-> None, updated_at |-> t]

\* The accounts at a provider.  Account s1 carries an email, account s2
\* carries none; the display name of an account changes with time, and a
\* fetch answers with the name current at time t.
EmailOf(sub) == IF sub = "s1" THEN Some("alice@example.com") ELSE None
NameAt(t) == IF t = 0 THEN "n1" ELSE "n2"

\* The normalized profiles a provider can answer with at time t.
Profiles(provider, t) ==
    { OAuth2UserInfo(provider, s, EmailOf(s), NameAt(t), t) : s \in Subjects }

\* ----------------------------------------------------------- OAuth2 manager
\* OAuth2Provider.
AllProviders == {"Google", "GitHub", "Discord", "Microsoft"}

\* serde_json::Value, as far as parse_user_info looks at one.
JNull == [kind |-> "null", s |-> "", n |-> 0, b |-> FALSE]
JStr(x) == [kind |-> "string", s |-> x, n |-> 0, b |-> FALSE]
JNum(x) == [kind |-> "number", s |-> "", n |-> x, b |-> FALSE]
JBool(x) == [kind |-> "bool", s |-> "", n |-> 0, b |-> x]

as_str(v) == IF v.kind = "string" THEN Some(v.s) ELSE None
as_u64(v) == IF v.kind = "number" /\ v.n >= 0 THEN Some(v.n) ELSE None
as_bool(v) == IF v.kind = "bool" THEN Some(v.b) ELSE None

\* The keys parse_user_info reads; a JSON object answers Null for a key it
\* does not have.
JsonKeys ==
    {"id", "email", "name", "picture", "verified_email", "locale", "avatar_url",
     "username", "avatar", "verified", "mail", "userPrincipalName", "displayName"}

JsonObject(fields) ==
    [k \in JsonKeys |-> IF k \in DOMAIN fields THEN fields[k] ELSE JNull]

\* The user-info responses of a provider: the id is absent, a string or a
\* number (the string possibly empty), every other field the provider has
\* is present or absent.
IdValues == {JNull, JStr(""), JStr("s1"), JNum(7)}

Bodies(provider) ==
    CASE provider = "Google" ->
           { JsonObject([id |-> i, email |-> e, name |-> n, picture |-> a,
                         verified_email |-> v, locale |-> l]) :
               i \in IdValues, e \in {JNull, JStr("alice@example.com")},
               n \in {JNull, JStr("n1")}, a \in {JNull, JStr("pic")},
               v \in {JNull, JBool(TRUE)}, l \in {JNull, JStr("en")} }
      [] provider = "GitHub" ->
           { JsonObject([id |-> i, email |-> e, name |-> n, avatar_url |-> a]) :
               i \in IdValues, e \in {JNull, JStr(""), JStr("alice@example.com")},
               n \in {JNull, JStr("n1")}, a \in {JNull, JStr("pic")} }
      [] provider = "Discord" ->
           { JsonObject([id |-> i, email |-> e, username |-> n, avatar |-> a,
                         verified |-> v, locale |-> l]) :
               i \in IdValues, e \in {JNull, JStr("alice@example.com")},
               n \in {JNull, JStr("n1")}, a \in {JNull, JStr("hash")},
               v \in {JNull, JBool(FALSE)}, l \in {JNull, JStr("en")} }
      [] provider = "Microsoft" ->
           { JsonObject([id |-> i, mail |-> e, userPrincipalName |-> u,
                         displayName |-> n]) :
               i \in IdValues, e \in {JNull, JStr("alice@example.com")},
               u \in {JNull, JStr("alice@tenant")}, n \in {JNull, JStr("n1")} }

\* Result<OAuth2UserInfo, AuthError> of parse_user_info.
ParseErr(err) == [ok |-> FALSE, err |-> err, info |-> None]

ParseOk(provider, provider_user_id, email, name, avatar_url, verified_email, locale, t) ==
    [ok |-> TRUE, err |-> "none",
     info |-> Some([user_id |-> 0, provider |-> provider,
                    provider_user_id |-> provider_user_id, email |-> email,
                    name |-> name, avatar_url |-> avatar_url,
                    verified_email |-> verified_email, locale |-> locale,
                    updated_at |-> t])]

\* Mutant of parse_user_info_google: a missing id becomes the empty string.
parse_user_info_google_lenient(response_body, t) ==
    LET id == as_str(response_body["id"]) IN
    ParseOk("Google", IF IsSome(id) THEN Unwrap(id) ELSE "",
            as_str(response_body["email"]), as_str(response_body["name"]),
            as_str(response_body["picture"]), as_bool(response_body["verified_email"]),
            as_str(response_body["locale"]), t)

\* OAuth2Manager::parse_user_info, the arm of Google.
parse_user_info_google(response_body, t) ==
    LET id == as_str(response_body["id"]) IN
    IF ~IsSome(id) THEN ParseErr("OAuthInvalidResponse")
    ELSE ParseOk("Google", Unwrap(id),
                 as_str(response_body["email"]), as_str(response_body["name"]),
                 as_str(response_body["picture"]), as_bool(response_body["verified_email"]),
                 as_str(response_body["locale"]), t)

\* The arm of GitHub: the id is a number, an empty email is no email.
parse_user_info_github(response_body, t) ==
    LET id == as_u64(response_body["id"])
        email_str == as_str(response_body["email"]) IN
    IF ~IsSome(id) THEN ParseErr("OAuthInvalidResponse")
    ELSE ParseOk("GitHub", ToString(Unwrap(id)),
                 IF IsSome(email_str) /\ Unwrap(email_str) # "" THEN email_str ELSE None,
                 as_str(response_body["name"]), as_str(response_body["avatar_url"]),
                 None, None, t)

\* The arm of Discord: the avatar URL is built from the id and the hash.
parse_user_info_discord(response_body, t) ==
    LET id == as_str(response_body["id"])
        avatar == as_str(response_body["avatar"]) IN
    IF ~IsSome(id) THEN ParseErr("OAuthInvalidResponse")
    ELSE ParseOk("Discord", Unwrap(id),
                 as_str(response_body["email"]), as_str(response_body["username"]),
                 IF IsSome(avatar)
                 THEN Some("https://cdn.discordapp.com/avatars/" \o Unwrap(id)
                           \o "/" \o Unwrap(avatar) \o ".png")
                 ELSE None,
                 as_bool(response_body["verified"]), as_str(response_body["locale"]), t)

\* The arm of Microsoft: the email is mail, or else userPrincipalName.
parse_user_info_microsoft(response_body, t) ==
    LET id == as_str(response_body["id"])
        mail == as_str(response_body["mail"]) IN
    IF ~IsSome(id) THEN ParseErr("OAuthInvalidResponse")
    ELSE ParseOk("Microsoft", Unwrap(id),
                 IF IsSome(mail) THEN mail ELSE as_str(response_body["userPrincipalName"]),
                 as_str(response_body["displayName"]), None, None, None, t)

\* OAuth2Manager::parse_user_info.
parse_user_info(provider, response_body, t) ==
    CASE provider = "Google" -> parse_user_info_google(response_body, t)
      [] provider = "GitHub" -> parse_user_info_github(response_body, t)
      [] provider = "Discord" -> parse_user_info_discord(response_body, t)
      [] provider = "Microsoft" -> parse_user_info_microsoft(response_body, t)

\* OAuth2Provider::default_scopes.
default_scopes(provider) ==
    CASE provider = "Google" -> << "openid", "email", "profile" >>
      [] provider = "GitHub" -> << "user:email" >>
      [] provider = "Discord" -> << "identify", "email" >>
      [] provider = "Microsoft" -> << "openid", "profile", "email" >>

\* The order of String on the scopes used here.
ScopeOrder == << "email", "extra", "identify", "openid", "profile", "repo", "user:email" >>
ScopeRank(scope) == CHOOSE i \in 1..Len(ScopeOrder) : ScopeOrder[i] = scope

\* Mutant of sort: the Vec is left in the order it was built in.
unsorted(v) == v

\* Vec::sort.
RECURSIVE sort(_)
sort(v) ==
    IF v = << >> THEN << >>
    ELSE LET head == sort(SubSeq(v, 1, Len(v) - 1))
             x == v[Len(v)]
             k == Cardinality({ i \in 1..Len(head) : ScopeRank(head[i]) <= ScopeRank(x) })
         IN SubSeq(head, 1, k) \o << x >> \o SubSeq(head, k + 1, Len(head))

\* Vec::dedup: of consecutive equal elements the first is kept.
RECURSIVE dedup(_)
dedup(v) ==
    IF Len(v) <= 1 THEN v
    ELSE LET head == dedup(SubSeq(v, 1, Len(v) - 1)) IN
         IF v[Len(v)] = v[Len(v) - 1] THEN head ELSE Append(head, v[Len(v)])

\* OAuth2Config, as far as the manager reads it; the URLs are valid.
OAuth2Config(additional_scopes) ==
    [additional_scopes |-> additional_scopes, redirect_frontend_uri |-> "https://front"]

\* OAuth2Manager::get_client, as far as it can fail here: no config.
get_client(cfgs, provider) == IsSome(cfgs[provider])

\* OAuth2Manager::generate_auth_url: the URL is modelled by the scopes put
\* in it, in order.
generate_auth_url(cfgs, provider, scopes) ==
    IF ~get_client(cfgs, provider)
    THEN [ok |-> FALSE, err |-> "ConfigError", ret |-> None, requests |-> << >>]
    ELSE LET config == Unwrap(cfgs[provider])
             all_scopes == default_scopes(provider)
                           \o (IF IsSome(scopes) THEN Unwrap(scopes) ELSE << >>)
                           \o config.additional_scopes
         IN [ok |-> TRUE, err |-> "none", ret |-> Some(dedup(sort(all_scopes))),
             requests |-> << >>]

\* OAuth2Token, as far as the manager reads it.
OAuth2Token(provider, access_token, refresh_token) ==
    [provider |-> provider, access_token |-> access_token, refresh_token |-> refresh_token]

\* What the token endpoint of a provider can answer: a failure, a token
\* with a refresh token, a token without one.
TokenResponses ==
    { [ok |-> FALSE, access_token |-> "", refresh_token |-> None],
      [ok |-> TRUE, access_token |-> "at2", refresh_token |-> None],
      [ok |-> TRUE, access_token |-> "at2", refresh_token |-> Some("rt2")] }

\* OAuth2Manager::exchange_code_for_token.
exchange_code_for_token(cfgs, provider, response) ==
    IF ~get_client(cfgs, provider)
    THEN [ok |-> FALSE, err |-> "ConfigError", ret |-> None, requests |-> << >>]
    ELSE IF ~response.ok
    THEN [ok |-> FALSE, err |-> "OAuthTokenExchange", ret |-> None,
          requests |-> << "token" >>]
    ELSE [ok |-> TRUE, err |-> "none",
          ret |-> Some(OAuth2Token(provider, response.access_token, response.refresh_token)),
          requests |-> << "token" >>]

\* What the user-info endpoint can answer: no answer (send() fails), a
\* non-success status, a success status whose body cannot be read to its end
\* (json() fails while receiving), a body that is not JSON, a JSON body.
UserInfoResponses(provider) ==
    { [sent |-> FALSE, success |-> FALSE, complete |-> FALSE, json |-> FALSE,
       body |-> JsonObject(<< >>)],
      [sent |-> TRUE, success |-> FALSE, complete |-> TRUE, json |-> TRUE,
       body |-> JsonObject(<< >>)],
      [sent |-> TRUE, success |-> TRUE, complete |-> FALSE, json |-> FALSE,
       body |-> JsonObject(<< >>)],
      [sent |-> TRUE, success |-> TRUE, complete |-> TRUE, json |-> FALSE,
       body |-> JsonObject(<< >>)],
      [sent |-> TRUE, success |-> TRUE, complete |-> TRUE, json |-> TRUE,
       body |-> JsonObject(<< >>)],
      [sent |-> TRUE, success |-> TRUE, complete |-> TRUE, json |-> TRUE,
       body |-> JsonObject([id |-> IF provider = "GitHub" THEN JNum(7) ELSE JStr("s1")])] }

\* OAuth2Manager::fetch_user_info: every error of response.json() is
\* mapped to OAuthInvalidResponse.
fetch_user_info(cfgs, token, response, t) ==
    IF ~IsSome(cfgs[token.provider])
    THEN [ok |-> FALSE, err |-> "ConfigError", ret |-> None, requests |-> << >>]
    ELSE IF ~response.sent
    THEN [ok |-> FALSE, err |-> "OAuthNetwork", ret |-> None, requests |-> << "userinfo" >>]
    ELSE IF ~response.success
    THEN [ok |-> FALSE, err |-> "OAuthUserInfo", ret |-> None, requests |-> << "userinfo" >>]
    ELSE IF ~response.complete \/ ~response.json
    THEN [ok |-> FALSE, err |-> "OAuthInvalidResponse", ret |-> None,
          requests |-> << "userinfo" >>]
    ELSE LET parsed == parse_user_info(token.provider, response.body, t) IN
         [ok |-> parsed.ok, err |-> parsed.err, ret |-> parsed.info,
          requests |-> << "userinfo" >>]

\* Mutant of OAuth2Manager_refresh_token: the request is made with an empty refresh token
\* when the token carries none.
refresh_token_always_asks(cfgs, token, response) ==
    IF ~get_client(cfgs, token.provider)
    THEN [ok |-> FALSE, err |-> "ConfigError", ret |-> None, requests |-> << >>]
    ELSE IF ~response.ok \/ ~IsSome(token.refresh_token)
    THEN [ok |-> FALSE, err |-> "OAuthTokenExchange", ret |-> None,
          requests |-> << "token" >>]
    ELSE [ok |-> TRUE, err |-> "none",
          ret |-> Some(OAuth2Token(token.provider, response.access_token,
                                   IF IsSome(response.refresh_token)
                                   THEN response.refresh_token ELSE token.refresh_token)),
          requests |-> << "token" >>]

\* OAuth2Manager::refresh_token.
OAuth2Manager_refresh_token(cfgs, token, response) ==
    IF ~get_client(cfgs, token.provider)
    THEN [ok |-> FALSE, err |-> "ConfigError", ret |-> None, requests |-> << >>]
    ELSE IF ~IsSome(token.refresh_token)
    THEN [ok |-> FALSE, err |-> "OAuthTokenExchange", ret |-> None, requests |-> << >>]
    ELSE IF ~response.ok
    THEN [ok |-> FALSE, err |-> "OAuthTokenExchange", ret |-> None,
          requests |-> << "token" >>]
    ELSE [ok |-> TRUE, err |-> "none",
          ret |-> Some(OAuth2Token(token.provider, response.access_token,
                                   IF IsSome(response.refresh_token)
                                   THEN response.refresh_token ELSE token.refresh_token)),
          requests |-> << "token" >>]

\* Mutant of get_redirect_frontend_uri: an empty URI when there is no config.
get_redirect_frontend_uri_or_empty(cfgs, provider) ==
    IF ~IsSome(cfgs[provider])
    THEN [ok |-> TRUE, err |-> "none", ret |-> Some(""), requests |-> << >>]
    ELSE [ok |-> TRUE, err |-> "none",
          ret |-> Some(Unwrap(cfgs[provider]).redirect_frontend_uri), requests |-> << >>]

\* OAuth2Manager::get_redirect_frontend_uri.
get_redirect_frontend_uri(cfgs, provider) ==
    IF ~IsSome(cfgs[provider])
    THEN [ok |-> FALSE, err |-> "ConfigError", ret |-> None, requests |-> << >>]
    ELSE [ok |-> TRUE, err |-> "none",
          ret |-> Some(Unwrap(cfgs[provider]).redirect_frontend_uri), requests |-> << >>]

\* The manager of the service the operations on Users run in: every
\* provider has a config.
ConfiguredForAll == [pr \in AllProviders |-> Some(OAuth2Config(<< >>))]

\* ------------------------------------------------------- password manager
\* Mutant of hash_password: the empty password is hashed like any other.
hash_password_any(password) == [ok |-> TRUE, err |-> "none", hash |-> Some(password)]

\* Argon2PasswordManager::hash_password: an empty password is refused, any
\* other is hashed; the hash is modelled by the password it was made from.
hash_password(password) ==
    IF password = ""
    THEN [ok |-> FALSE, err |-> "InvalidPassword", hash |-> None]
    ELSE [ok |-> TRUE, err |-> "none", hash |-> Some(password)]

\* Argon2PasswordManager::verify_password: Ok(false) for an empty password
\* or an empty hash (None here); else the hasher's error (hasher_fails), or
\* Ok(whether the hash was made from this password).
verify_password(password, hashed_password, hasher_fails) ==
    IF password = "" \/ ~IsSome(hashed_password)
    THEN [ok |-> TRUE, err |-> "none", valid |-> FALSE]
    ELSE IF hasher_fails
    THEN [ok |-> FALSE, err |-> "VerificationError", valid |-> FALSE]
    ELSE [ok |-> TRUE, err |-> "none", valid |-> Unwrap(hashed_password) = password]

\* The local is_valid of login: not computed, the verifier's Err, or its bool.
IsValidOf(v) == IF ~v.ok THEN "Err" ELSE IF v.valid THEN "true" ELSE "false"

\* User::with_plain_password: the User with this id and identifier and the
\* hash of the password, or the password manager's error.
User_with_plain_password(id, identifier, password) ==
    LET h == hash_password(password) IN
    IF ~h.ok
    THEN [ok |-> FALSE, err |-> h.err, user |-> None]
    ELSE [ok |-> TRUE, err |-> "none",
          user |-> Some([id |-> id,
                         credentials |-> Some([identifier |-> identifier,
                                               password_hash |-> h.hash]),
                         oauth_accounts |-> NoAccounts])]

\* ------------------------------------------------------------ token service
\* AuthServiceVariables::default(): lifetimes of the two tokens, in ticks.
token_expiration == 1
refresh_token_expiration == 2

\* TokenService::generate_token_pair: the claims of the two tokens, with the
\* lifetimes JwtTokenService::new was given.
generate_token_pair(user_id, t) ==
    [access_token |-> [sub |-> user_id, exp |-> t + auth_vars.token_expiration,
                       iat |-> t, token_type |-> "access"],
     refresh_token |-> [sub |-> user_id, exp |-> t + auth_vars.refresh_token_expiration,
                        iat |-> t, token_type |-> "refresh"]]

\* TokenService::validate_access_token: the claims of an access token that
\* has not expired.
validate_access_token(token, t) ==
    IF token.token_type = "access" /\ token.exp > t
    THEN [ok |-> TRUE, err |-> "none", sub |-> token.sub, exp |-> token.exp]
    ELSE [ok |-> FALSE, err |-> "InvalidToken", sub |-> 0, exp |-> 0]

\* A string that does not decode to signed claims.
malformed_token == [sub |-> 0, exp |-> 0, iat |-> 0, token_type |-> "malformed"]

\* The token strings a caller can present at time t: the tokens of the pairs
\* issued up to t (get_tokens is public and the service keeps no record of
\* what it issued), and a malformed string.
Tokens(t) ==
    { generate_token_pair(id, iat).access_token : id \in 1..MaxIds, iat \in 0..t }
    \cup { generate_token_pair(id, iat).refresh_token : id \in 1..MaxIds, iat \in 0..t }
    \cup { malformed_token }

\* Mutant of refresh_access_token: the new pair is issued for the subject of
\* User::default().
refresh_access_token_default_subject(refresh_token, t) ==
    IF refresh_token.token_type = "refresh" /\ refresh_token.exp > t
    THEN [ok |-> TRUE, err |-> "none", tokens |-> Some(generate_token_pair(0, t))]
    ELSE [ok |-> FALSE, err |-> "InvalidToken", tokens |-> None]

\* Mutant of refresh_access_token: the type of the token is not looked at.
refresh_access_token_any_type(refresh_token, t) ==
    IF refresh_token.token_type # "malformed" /\ refresh_token.exp > t
    THEN [ok |-> TRUE, err |-> "none",
          tokens |-> Some(generate_token_pair(refresh_token.sub, t))]
    ELSE [ok |-> FALSE, err |-> "InvalidToken", tokens |-> None]

\* TokenService::refresh_access_token: a new pair for the subject of a
\* refresh token that has not expired.
refresh_access_token(refresh_token, t) ==
    IF refresh_token.token_type = "refresh" /\ refresh_token.exp > t
    THEN [ok |-> TRUE, err |-> "none",
          tokens |-> Some(generate_token_pair(refresh_token.sub, t))]
    ELSE [ok |-> FALSE, err |-> "InvalidToken", tokens |-> None]

\* AuthService::get_user_id_from_token: the subject of the validated claims.
get_user_id_from_token(token, t) ==
    LET claims == validate_access_token(token, t) IN
    IF claims.ok
    THEN [ok |-> TRUE, err |-> "none", user_id |-> claims.sub]
    ELSE [ok |-> FALSE, err |-> claims.err, user_id |-> 0]

\* Mutant of is_token_expired: only the expiration instant is looked at.
is_token_expired_by_time(token, t) == token.exp <= t

\* AuthService::is_token_expired: validate_access_token(token).is_err().
is_token_expired(token, t) == ~validate_access_token(token, t).ok

\* Mutant of get_tokens: the pair is issued for the id of User::default()
\* instead of the id passed.
get_tokens_default_id(id, t) == generate_token_pair(0, t)

\* AuthService::get_tokens.
get_tokens(id, t) == generate_token_pair(id, t)

\* ---------------------------------------------------------- user repository
\* Least index of the set S of matching indices, 0 when there is none
\* (Iterator::find on the Vec).
FirstIndex(S) ==
    IF S = {} THEN 0 ELSE CHOOSE i \in S : \A j \in S : i <= j

\* InMemoryUserRepo::add_user: pushes, whatever the Vec holds.
add_user(us, user) == [ok |-> TRUE, users |-> Append(us, user)]

\* Mutant of get_user_by_id: the first stored User, whatever its id.
get_user_by_id_first(us, id) == IF us = << >> THEN None ELSE Some(us[1])

\* InMemoryUserRepo::get_user_by_id.
get_user_by_id(us, id) ==
    LET i == FirstIndex({ k \in 1..Len(us) : us[k].id = id }) IN
    IF i = 0 THEN None ELSE Some(us[i])

\* str::to_lowercase on the identifiers used here.
to_lowercase(identifier) ==
    IF identifier = "Alice@example.com" THEN "alice@example.com" ELSE identifier

\* Mutant of get_user_by_identifier: the comparison ignores case.
get_user_by_identifier_ignore_case(us, identifier) ==
    LET i == FirstIndex({ k \in 1..Len(us) :
                           /\ IsSome(us[k].credentials)
                           /\ to_lowercase(Unwrap(us[k].credentials).identifier)
                                = to_lowercase(identifier) }) IN
    IF i = 0 THEN None ELSE Some(us[i])

\* InMemoryUserRepo::get_user_by_identifier.
get_user_by_identifier(us, identifier) ==
    LET i == FirstIndex({ k \in 1..Len(us) :
                           /\ IsSome(us[k].credentials)
                           /\ Unwrap(us[k].credentials).identifier = identifier }) IN
    IF i = 0 THEN None ELSE Some(us[i])

\* UserRepository::get_user_by_oauth_id: the first User linked to
\* (provider, provider_user_id).
get_user_by_oauth_id(us, provider, provider_user_id) ==
    LET i == FirstIndex({ k \in 1..Len(us) :
                 /\ IsSome(us[k].oauth_accounts[provider])
                 /\ Unwrap(us[k].oauth_accounts[provider]).provider_user_id = provider_user_id }) IN
    IF i = 0 THEN None ELSE Some(us[i])

\* UserRepository::update_user: replaces the stored User of the same id,
\* fails when there is none.
update_user(us, user) ==
    LET i == FirstIndex({ k \in 1..Len(us) : us[k].id = user.id }) IN
    IF i = 0 THEN [ok |-> FALSE, users |-> us]
    ELSE [ok |-> TRUE, users |-> [us EXCEPT ![i] = user]]

\* A write through the UserRepository trait object: the repository's answer,
\* or the Err the trait's Result allows (fails).
repo_write(answer, us, fails) ==
    IF fails THEN [ok |-> FALSE, users |-> us] ELSE answer

\* Mutant of get_user_from_token: the subject is read from the token
\* without validating it.
get_user_from_token_unvalidated(us, token, t) ==
    LET found == get_user_by_id(us, token.sub) IN
    [status |-> IF IsSome(found) THEN "ok" ELSE "UserNotFound",
     ret_user |-> found,
     calls |-> << "validate_access_token", "get_user_by_id" >>]

\* AuthService::get_user_from_token: the User of the subject of a token
\* that validates, on store us.
get_user_from_token(us, token, t) ==
    LET user_id == get_user_id_from_token(token, t) IN
    IF ~user_id.ok
    THEN [status |-> user_id.err, ret_user |-> None,
          calls |-> << "validate_access_token" >>]
    ELSE LET found == get_user_by_id(us, user_id.user_id) IN
         [status |-> IF IsSome(found) THEN "ok" ELSE "UserNotFound",
          ret_user |-> found,
          calls |-> << "validate_access_token", "get_user_by_id" >>]

\* ---------------------------------------------------------------- requests
\* A request slot: position (pc), operation and arguments, locals, the value
\* returned, and calls, the collaborator calls the request has made, in order.
IdleProc ==
    [pc |-> "idle", op |-> "none", identifier |-> "", password |-> "",
     provider |-> "none", user_id |-> 0, info |-> None, user |-> None,
     branch |-> "none", status |-> "none", ret_user |-> None, tokens |-> None,
     token |-> None, expired |-> FALSE, calls |-> << >>,
     arg |-> None, ret |-> None, requests |-> << >>, is_valid |-> "none"]

\* A slot is free when it runs no request.  A new request takes the lowest
\* free slot (slots are interchangeable).
Free(p) == proc[p].pc \in {"idle", "done"}

CanStart(p) ==
    /\ Free(p)
    /\ \A q \in Procs : q < p => ~Free(q)
    /\ opsStarted < MaxOps

\* A returned value is handed to the caller in the state the request ends
\* in; at the next step the slot is empty again.
Freed == [q \in Procs |-> IF proc[q].pc = "done" THEN IdleProc ELSE proc[q]]

\* Request r has made one more collaborator call.
Called(r, call) == [r EXCEPT !.calls = Append(r.calls, call)]

\* The value a finished request returns: Ok((user, tokens)) or Err(status).
Returned(r, status, ret_user, tokens) ==
    [r EXCEPT !.pc = "done", !.status = status, !.ret_user = ret_user, !.tokens = tokens]

Init ==
    /\ users = << >>
    /\ nextId = 0
    /\ now = 0
    /\ proc = [p \in Procs |-> IdleProc]
    /\ opsStarted = 0
    /\ signups = {}
    /\ configs = ConfiguredForAll
    /\ auth_vars = [token_expiration |-> token_expiration,
                    refresh_token_expiration |-> refresh_token_expiration]

\* The clock advances.
Tick ==
    /\ now < MaxTime
    /\ now' = now + 1
    /\ proc' = Freed
    /\ UNCHANGED << users, nextId, opsStarted, signups, configs, auth_vars >>

\* Mutant of login_credentials: an unknown identifier is reported as
\* UserNotFound.
login_credentials_enumerating(us, identifier, password, t, hasher_fails) ==
    LET stored_user == get_user_by_identifier(us, identifier) IN
    IF ~IsSome(stored_user)
    THEN [status |-> "UserNotFound", ret_user |-> None, tokens |-> None,
          calls |-> << "get_user_by_identifier" >>, is_valid |-> "none"]
    ELSE IF ~IsSome(Unwrap(stored_user).credentials)
    THEN [status |-> "InvalidCredentials", ret_user |-> None, tokens |-> None,
          calls |-> << "get_user_by_identifier" >>, is_valid |-> "none"]
    ELSE LET v == verify_password(password,
                      Unwrap(Unwrap(stored_user).credentials).password_hash,
                      hasher_fails) IN
    IF ~v.ok
    THEN [status |-> "PasswordVerificationError", ret_user |-> None, tokens |-> None,
          calls |-> << "get_user_by_identifier", "verify_password" >>,
          is_valid |-> IsValidOf(v)]
    ELSE IF ~v.valid
    THEN [status |-> "InvalidCredentials", ret_user |-> None, tokens |-> None,
          calls |-> << "get_user_by_identifier", "verify_password" >>,
          is_valid |-> IsValidOf(v)]
    ELSE [status |-> "ok", ret_user |-> stored_user,
          tokens |-> Some(generate_token_pair(Unwrap(stored_user).id, t)),
          calls |-> << "get_user_by_identifier", "verify_password", "generate_token_pair" >>,
          is_valid |-> IsValidOf(v)]

\* Mutant of login_credentials: an error of the verifier is taken for a
\* password that does not match.
login_credentials_err_as_mismatch(us, identifier, password, t, hasher_fails) ==
    LET stored_user == get_user_by_identifier(us, identifier) IN
    IF ~IsSome(stored_user)
    THEN [status |-> "InvalidCredentials", ret_user |-> None, tokens |-> None,
          calls |-> << "get_user_by_identifier" >>, is_valid |-> "none"]
    ELSE IF ~IsSome(Unwrap(stored_user).credentials)
    THEN [status |-> "InvalidCredentials", ret_user |-> None, tokens |-> None,
          calls |-> << "get_user_by_identifier" >>, is_valid |-> "none"]
    ELSE LET v == verify_password(password,
                      Unwrap(Unwrap(stored_user).credentials).password_hash,
                      hasher_fails) IN
    IF ~v.ok
    THEN [status |-> "InvalidCredentials", ret_user |-> None, tokens |-> None,
          calls |-> << "get_user_by_identifier", "verify_password" >>,
          is_valid |-> IsValidOf(v)]
    ELSE IF ~v.valid
    THEN [status |-> "InvalidCredentials", ret_user |-> None, tokens |-> None,
          calls |-> << "get_user_by_identifier", "verify_password" >>,
          is_valid |-> IsValidOf(v)]
    ELSE [status |-> "ok", ret_user |-> stored_user,
          tokens |-> Some(get_tokens(Unwrap(stored_user).id, t)),
          calls |-> << "get_user_by_identifier", "verify_password", "generate_token_pair" >>,
          is_valid |-> IsValidOf(v)]

\* AuthService::login, LoginMethod::Credentials: the outcome on store us.
login_credentials(us, identifier, password, t, hasher_fails) ==
    LET stored_user == get_user_by_identifier(us, identifier) IN
    IF ~IsSome(stored_user)
    THEN [status |-> "InvalidCredentials", ret_user |-> None, tokens |-> None,
          calls |-> << "get_user_by_identifier" >>, is_valid |-> "none"]
    ELSE IF ~IsSome(Unwrap(stored_user).credentials)
    THEN [status |-> "InvalidCredentials", ret_user |-> None, tokens |-> None,
          calls |-> << "get_user_by_identifier" >>, is_valid |-> "none"]
    ELSE LET v == verify_password(password,
                      Unwrap(Unwrap(stored_user).credentials).password_hash,
                      hasher_fails) IN
    IF ~v.ok
    THEN [status |-> "PasswordVerificationError", ret_user |-> None, tokens |-> None,
          calls |-> << "get_user_by_identifier", "verify_password" >>,
          is_valid |-> IsValidOf(v)]
    ELSE IF ~v.valid
    THEN [status |-> "InvalidCredentials", ret_user |-> None, tokens |-> None,
          calls |-> << "get_user_by_identifier", "verify_password" >>,
          is_valid |-> IsValidOf(v)]
    ELSE [status |-> "ok", ret_user |-> stored_user,
          tokens |-> Some(get_tokens(Unwrap(stored_user).id, t)),
          calls |-> << "get_user_by_identifier", "verify_password", "generate_token_pair" >>,
          is_valid |-> IsValidOf(v)]

LoginCredentials(p, identifier, password, hasher_fails) ==
    /\ CanStart(p)
    /\ LET out == login_credentials(users, identifier, password, now, hasher_fails) IN
       proc' = [Freed EXCEPT ![p] =
                  Returned([IdleProc EXCEPT !.op = "login_credentials",
                                            !.identifier = identifier,
                                            !.password = password,
                                            !.calls = out.calls,
                                            !.is_valid = out.is_valid],
                           out.status, out.ret_user, out.tokens)]
    /\ opsStarted' = opsStarted + 1
    /\ UNCHANGED << users, nextId, now, signups, configs, auth_vars >>

\* AuthService::signup, SignupMethod::Credentials, up to the call of add_user:
\* a fresh id, the password hashed.
SignupCredentialsBegin(p, identifier, password) ==
    /\ CanStart(p)
    /\ nextId < MaxIds
    /\ LET made == User_with_plain_password(nextId + 1, identifier, password)
           r == [IdleProc EXCEPT !.op = "signup_credentials",
                                 !.identifier = identifier, !.password = password,
                                 !.calls = << "hash_password" >>] IN
       proc' = [Freed EXCEPT ![p] =
                  IF made.ok
                  THEN [r EXCEPT !.pc = "sc_add", !.user = made.user]
                  ELSE Returned(r, made.err, None, None)]
    /\ nextId' = nextId + 1
    /\ opsStarted' = opsStarted + 1
    /\ UNCHANGED << users, now, signups, configs, auth_vars >>

\* AuthService::signup, SignupMethod::Credentials, from add_user on.
SignupCredentialsAdd(p, fails) ==
    /\ proc[p].pc = "sc_add"
    /\ LET user == Unwrap(proc[p].user)
           w == repo_write(add_user(users, user), users, fails)
           r == Called(proc[p], "add_user") IN
       /\ users' = w.users
       /\ proc' = [Freed EXCEPT ![p] =
                     IF w.ok
                     THEN Returned(Called(r, "generate_token_pair"), "ok",
                                   Some(user), Some(get_tokens(user.id, now)))
                     ELSE Returned(r, "SignupError", None, None)]
       /\ signups' = IF w.ok
                     THEN signups \cup {[identifier |-> proc[p].identifier,
                                         password |-> proc[p].password, id |-> user.id]}
                     ELSE signups
    /\ UNCHANGED << nextId, now, opsStarted, configs, auth_vars >>

\* -------------------------------------------------------------- OAuth2 flows
\* What the provider exchange and the profile fetch can answer
\* (exchange_oauth2_code_for_token, then fetch_oauth2_user_info); the
\* exchange of a provider with no config answers ConfigError.
OAuthErrors == {"OAuthTokenExchange", "OAuthUserInfo"}

OAuthOutcomes(provider, t) ==
    IF ~get_client(configs, provider)
    THEN { [ok |-> FALSE, err |-> "ConfigError", info |-> None] }
    ELSE { [ok |-> FALSE, err |-> e, info |-> None] : e \in OAuthErrors }
         \cup { [ok |-> TRUE, err |-> "none", info |-> Some(i)] : i \in Profiles(provider, t) }

\* The calls on the OAuth2 manager behind an outcome: the fetch is made only
\* after a successful exchange.
ExchangeCalls(outcome) ==
    IF ~outcome.ok /\ outcome.err \in {"OAuthTokenExchange", "ConfigError"}
    THEN << "exchange_code_for_token" >>
    ELSE << "exchange_code_for_token", "fetch_user_info" >>

\* Mutant of oauth_accounts_insert: an entry the provider already has is
\* kept (entry().or_insert).
oauth_accounts_or_insert(user, provider, info) ==
    IF IsSome(user.oauth_accounts[provider])
    THEN user
    ELSE [user EXCEPT !.oauth_accounts[provider] = Some(info)]

\* user.oauth_accounts.insert(provider, oauth_user_info): the entry of the
\* provider is set, the others are kept.
oauth_accounts_insert(user, provider, info) ==
    [user EXCEPT !.oauth_accounts[provider] = Some(info)]

\* Mutant of oauth_new_user: the id of User::default() is kept.
oauth_new_user_default_id(id, provider, info) ==
    [User_default EXCEPT !.oauth_accounts[provider] = Some(info)]

\* The new User of the create branch: a fresh id, User::default() otherwise,
\* and the one account.
oauth_new_user(id, provider, info) ==
    oauth_accounts_insert([User_default EXCEPT !.id = id], provider, info)

\* Mutant of existing_user_by_email: only an email the provider has verified
\* is looked up.
existing_user_by_verified_email(us, info) ==
    IF IsSome(info.email) /\ info.verified_email = Some(TRUE)
    THEN get_user_by_identifier(us, Unwrap(info.email))
    ELSE None

\* Mutant of existing_user_by_email: the lookup by email is left out.
existing_user_by_email_skipped(us, info) == None

\* existing_user_by_email: looked up only when the profile carries an email.
existing_user_by_email(us, info) ==
    IF IsSome(info.email)
    THEN get_user_by_identifier(us, Unwrap(info.email))
    ELSE None

\* OAuth2Manager::link_to_user.
link_to_user(oauth_info, user_id) == [oauth_info EXCEPT !.user_id = user_id]

\* User::link_oauth_account: the account of the info's provider is attached
\* or replaced.
User_link_oauth_account(user, oauth_info) ==
    oauth_accounts_insert(user, oauth_info.provider, link_to_user(oauth_info, user.id))

\* Mutant of User_unlink_oauth_account: every account is removed.
User_unlink_all_accounts(user, provider) ==
    [user EXCEPT !.oauth_accounts = NoAccounts]

\* User::unlink_oauth_account: the account of the provider is removed, if any.
User_unlink_oauth_account(user, provider) ==
    [user EXCEPT !.oauth_accounts[provider] = None]

\* login / signup with the OAuth2 method (the two handlers hold the same
\* code), up to the first repository call: exchange, then fetch.
OAuthBegin(p, op, provider, outcome) ==
    /\ CanStart(p)
    /\ LET r == [IdleProc EXCEPT !.op = op, !.provider = provider,
                                 !.calls = ExchangeCalls(outcome)] IN
       proc' = [Freed EXCEPT ![p] =
                  IF outcome.ok
                  THEN [r EXCEPT !.pc = "oa_lookup_id", !.info = outcome.info]
                  ELSE Returned(r, outcome.err, None, None)]
    /\ opsStarted' = opsStarted + 1
    /\ UNCHANGED << users, nextId, now, signups, configs, auth_vars >>

\* The verified-email flag of a profile: absent, true or false.
VerifiedFlags == {None, Some(TRUE), Some(FALSE)}

\* The profiles of a provider with each value of the flag, and the answers
\* of the exchange and the fetch with those.
ProfilesWithFlag(provider, t) ==
    { [i EXCEPT !.verified_email = v] : i \in Profiles(provider, t), v \in VerifiedFlags }

OAuthOutcomesWithFlag(provider, t) ==
    OAuthOutcomes(provider, t)
    \cup { [ok |-> TRUE, err |-> "none", info |-> Some(i)] :
             i \in ProfilesWithFlag(provider, t) }

\* Mutant of signup_oauth2_by_email: signup does not merge by email.
signup_oauth2_never_merges(by_email) == "new"

\* login(OAuth2): the branch taken on the answer of get_user_by_oauth_id.
login_oauth2_by_id(existing_user, email) ==
    IF IsSome(existing_user) THEN "exact"
    ELSE IF IsSome(email) THEN "lookup_email" ELSE "new"

\* login(OAuth2): the branch taken on the answer of the lookup by email.
login_oauth2_by_email(by_email) == IF IsSome(by_email) THEN "email" ELSE "new"

\* signup(OAuth2): the branch taken on the answer of get_user_by_oauth_id.
signup_oauth2_by_id(existing_user, email) ==
    IF IsSome(existing_user) THEN "exact"
    ELSE IF IsSome(email) THEN "lookup_email" ELSE "new"

\* signup(OAuth2): the branch taken on the answer of the lookup by email.
signup_oauth2_by_email(by_email) == IF IsSome(by_email) THEN "email" ELSE "new"

\* The handler of the request's operation.
oauth2_by_id(op, existing_user, email) ==
    IF op = "login_oauth2" THEN login_oauth2_by_id(existing_user, email)
    ELSE signup_oauth2_by_id(existing_user, email)

oauth2_by_email(op, by_email) ==
    IF op = "login_oauth2" THEN login_oauth2_by_email(by_email)
    ELSE signup_oauth2_by_email(by_email)

\* Mutant of OAuthLookupId: the email match is tried before the exact match.
OAuthLookupId_email_first(p) ==
    /\ proc[p].pc = "oa_lookup_id"
    /\ LET provider == proc[p].provider
           info == Unwrap(proc[p].info)
           by_email == existing_user_by_email(users, info)
           existing_user == get_user_by_oauth_id(users, provider, info.provider_user_id) IN
       IF IsSome(by_email)
       THEN /\ proc' = [Freed EXCEPT ![p].pc = "oa_update", ![p].branch = "email",
                          ![p].calls = Append(@, "get_user_by_identifier"),
                          ![p].user = Some(oauth_accounts_insert(Unwrap(by_email),
                                                                 provider, info))]
            /\ UNCHANGED nextId
       ELSE IF IsSome(existing_user)
       THEN /\ proc' = [Freed EXCEPT ![p].pc = "oa_update", ![p].branch = "exact",
                          ![p].calls = Append(@, "get_user_by_oauth_id"),
                          ![p].user = Some(oauth_accounts_insert(Unwrap(existing_user),
                                                                 provider, info))]
            /\ UNCHANGED nextId
       ELSE /\ nextId < MaxIds
            /\ proc' = [Freed EXCEPT ![p].pc = "oa_add", ![p].branch = "new",
                          ![p].calls = Append(@, "get_user_by_oauth_id"),
                          ![p].user = Some(oauth_new_user(nextId + 1, provider, info))]
            /\ nextId' = nextId + 1
    /\ UNCHANGED << users, now, opsStarted, signups, configs, auth_vars >>

\* get_user_by_oauth_id and the branch on its answer.  With no match and no
\* email in the profile the new User is built here.
OAuthLookupId(p) ==
    /\ proc[p].pc = "oa_lookup_id"
    /\ LET provider == proc[p].provider
           info == Unwrap(proc[p].info)
           existing_user == get_user_by_oauth_id(users, provider, info.provider_user_id)
           branch == oauth2_by_id(proc[p].op, existing_user, info.email) IN
       IF branch = "exact"
       THEN /\ proc' = [Freed EXCEPT ![p].pc = "oa_update", ![p].branch = "exact",
                          ![p].calls = Append(@, "get_user_by_oauth_id"),
                          ![p].user = Some(oauth_accounts_insert(Unwrap(existing_user),
                                                                 provider, info))]
            /\ UNCHANGED nextId
       ELSE IF branch = "lookup_email"
       THEN /\ proc' = [Freed EXCEPT ![p].pc = "oa_lookup_email",
                          ![p].calls = Append(@, "get_user_by_oauth_id")]
            /\ UNCHANGED nextId
       ELSE /\ nextId < MaxIds
            /\ proc' = [Freed EXCEPT ![p].pc = "oa_add", ![p].branch = "new",
                          ![p].calls = Append(@, "get_user_by_oauth_id"),
                          ![p].user = Some(oauth_new_user(nextId + 1, provider, info))]
            /\ nextId' = nextId + 1
    /\ UNCHANGED << users, now, opsStarted, signups, configs, auth_vars >>

\* get_user_by_identifier(email) and the branch on its answer.
OAuthLookupEmail(p) ==
    /\ proc[p].pc = "oa_lookup_email"
    /\ LET provider == proc[p].provider
           info == Unwrap(proc[p].info)
           by_email == existing_user_by_email(users, info)
           branch == oauth2_by_email(proc[p].op, by_email) IN
       IF branch = "email"
       THEN /\ proc' = [Freed EXCEPT ![p].pc = "oa_update", ![p].branch = "email",
                          ![p].calls = Append(@, "get_user_by_identifier"),
                          ![p].user = Some(oauth_accounts_insert(Unwrap(by_email),
                                                                 provider, info))]
            /\ UNCHANGED nextId
       ELSE /\ nextId < MaxIds
            /\ proc' = [Freed EXCEPT ![p].pc = "oa_add", ![p].branch = "new",
                          ![p].calls = Append(@, "get_user_by_identifier"),
                          ![p].user = Some(oauth_new_user(nextId + 1, provider, info))]
            /\ nextId' = nextId + 1
    /\ UNCHANGED << users, now, opsStarted, signups, configs, auth_vars >>

\* Mutant of Persisted: the token pair is issued before the answer of the
\* write is looked at.
Persisted_tokens_first(r, w, user, t, with_tokens) ==
    IF with_tokens
    THEN Returned(Called(r, "generate_token_pair"),
                  IF w.ok THEN "ok" ELSE "RepositoryError",
                  IF w.ok THEN Some(user) ELSE None, Some(get_tokens(user.id, t)))
    ELSE IF w.ok THEN Returned(r, "ok", Some(user), None)
    ELSE Returned(r, "RepositoryError", None, None)

\* The tail of a handler that writes the User it holds and returns it:
\* Ok((user, tokens)) after a successful write, the repository's error else.
Persisted(r, w, user, t, with_tokens) ==
    IF w.ok
    THEN IF with_tokens
         THEN Returned(Called(r, "generate_token_pair"), "ok", Some(user),
                       Some(get_tokens(user.id, t)))
         ELSE Returned(r, "ok", Some(user), None)
    ELSE Returned(r, "RepositoryError", None, None)

\* Mutant of OAuthUpdate: the User returned is the one the store held before
\* the write.
OAuthUpdate_returns_stored(p, fails) ==
    /\ proc[p].pc = "oa_update"
    /\ LET user == Unwrap(proc[p].user)
           stored == get_user_by_id(users, user.id)
           w == repo_write(update_user(users, user), users, fails) IN
       /\ users' = w.users
       /\ proc' = [Freed EXCEPT ![p] =
                     Persisted(Called(proc[p], "update_user"), w,
                               IF IsSome(stored) THEN Unwrap(stored) ELSE user, now, TRUE)]
    /\ UNCHANGED << nextId, now, opsStarted, signups, configs, auth_vars >>

\* update_user of the exact-match and email-match branches, then get_tokens.
OAuthUpdate(p, fails) ==
    /\ proc[p].pc = "oa_update"
    /\ LET user == Unwrap(proc[p].user)
           w == repo_write(update_user(users, user), users, fails) IN
       /\ users' = w.users
       /\ proc' = [Freed EXCEPT ![p] =
                     Persisted(Called(proc[p], "update_user"), w, user, now, TRUE)]
    /\ UNCHANGED << nextId, now, opsStarted, signups, configs, auth_vars >>

\* Mutant of OAuthAdd: a failed insert sends the request back to the lookup.
OAuthAdd_retrying(p, fails) ==
    /\ proc[p].pc = "oa_add"
    /\ LET user == Unwrap(proc[p].user)
           w == repo_write(add_user(users, user), users, fails) IN
       /\ users' = w.users
       /\ proc' = [Freed EXCEPT ![p] =
                     IF w.ok
                     THEN Persisted(Called(proc[p], "add_user"), w, user, now, TRUE)
                     ELSE [Called(proc[p], "add_user") EXCEPT !.pc = "oa_lookup_id"]]
    /\ UNCHANGED << nextId, now, opsStarted, signups, configs, auth_vars >>

\* add_user of the create branch, then get_tokens.
OAuthAdd(p, fails) ==
    /\ proc[p].pc = "oa_add"
    /\ LET user == Unwrap(proc[p].user)
           w == repo_write(add_user(users, user), users, fails) IN
       /\ users' = w.users
       /\ proc' = [Freed EXCEPT ![p] =
                     Persisted(Called(proc[p], "add_user"), w, user, now, TRUE)]
    /\ UNCHANGED << nextId, now, opsStarted, signups, configs, auth_vars >>

\* Mutant of LinkBegin: the exchange and the fetch are made before the User
\* is loaded.
LinkBegin_exchange_first(p, user_id, provider, outcome) ==
    /\ CanStart(p)
    /\ LET r == [IdleProc EXCEPT !.op = "link_oauth_account",
                                 !.user_id = user_id, !.provider = provider,
                                 !.calls = ExchangeCalls(outcome)]
           x == Called(r, "get_user_by_id")
           found == get_user_by_id(users, user_id) IN
       proc' = [Freed EXCEPT ![p] =
                  IF ~outcome.ok THEN Returned(r, outcome.err, None, None)
                  ELSE IF ~IsSome(found) THEN Returned(x, "UserNotFound", None, None)
                  ELSE [x EXCEPT !.pc = "lk_update", !.info = outcome.info,
                          !.user = Some(User_link_oauth_account(Unwrap(found),
                                                                Unwrap(outcome.info)))]]
    /\ opsStarted' = opsStarted + 1
    /\ UNCHANGED << users, nextId, now, signups, configs, auth_vars >>

\* AuthService::link_oauth_account up to update_user: get_user_by_id, the
\* exchange and the fetch, User::link_oauth_account.
LinkBegin(p, user_id, provider, outcome) ==
    /\ CanStart(p)
    /\ LET r == [IdleProc EXCEPT !.op = "link_oauth_account",
                                 !.user_id = user_id, !.provider = provider,
                                 !.calls = << "get_user_by_id" >>]
           x == [r EXCEPT !.calls = r.calls \o ExchangeCalls(outcome)]
           found == get_user_by_id(users, user_id) IN
       proc' = [Freed EXCEPT ![p] =
                  IF ~IsSome(found) THEN Returned(r, "UserNotFound", None, None)
                  ELSE IF ~outcome.ok THEN Returned(x, outcome.err, None, None)
                  ELSE [x EXCEPT !.pc = "lk_update", !.info = outcome.info,
                          !.user = Some(User_link_oauth_account(Unwrap(found),
                                                                Unwrap(outcome.info)))]]
    /\ opsStarted' = opsStarted + 1
    /\ UNCHANGED << users, nextId, now, signups, configs, auth_vars >>

\* Mutant of LinkUpdate: the link is refused when another stored User holds
\* the external identity.
LinkUpdate_checked(p, fails) ==
    /\ proc[p].pc = "lk_update"
    /\ LET user == Unwrap(proc[p].user)
           taken == \E j \in 1..Len(users) :
                       /\ users[j].id # user.id
                       /\ users[j].oauth_accounts[proc[p].provider] # None
                       /\ Unwrap(users[j].oauth_accounts[proc[p].provider]).provider_user_id
                             = Unwrap(proc[p].info).provider_user_id
           w == repo_write(update_user(users, user), users, fails \/ taken) IN
       /\ users' = w.users
       /\ proc' = [Freed EXCEPT ![p] =
                     IF taken
                     THEN Returned(proc[p], "OAuthAccountAlreadyLinked", None, None)
                     ELSE Persisted(Called(proc[p], "update_user"), w, user, now, FALSE)]
    /\ UNCHANGED << nextId, now, opsStarted, signups, configs, auth_vars >>

\* AuthService::link_oauth_account from update_user on.
LinkUpdate(p, fails) ==
    /\ proc[p].pc = "lk_update"
    /\ LET user == Unwrap(proc[p].user)
           w == repo_write(update_user(users, user), users, fails) IN
       /\ users' = w.users
       /\ proc' = [Freed EXCEPT ![p] =
                     Persisted(Called(proc[p], "update_user"), w, user, now, FALSE)]
    /\ UNCHANGED << nextId, now, opsStarted, signups, configs, auth_vars >>

\* AuthService::unlink_oauth_account up to update_user.
UnlinkBegin(p, user_id, provider) ==
    /\ CanStart(p)
    /\ LET r == [IdleProc EXCEPT !.op = "unlink_oauth_account",
                                 !.user_id = user_id, !.provider = provider,
                                 !.calls = << "get_user_by_id" >>]
           found == get_user_by_id(users, user_id) IN
       proc' = [Freed EXCEPT ![p] =
                  IF ~IsSome(found) THEN Returned(r, "UserNotFound", None, None)
                  ELSE [r EXCEPT !.pc = "ul_update",
                          !.user = Some(User_unlink_oauth_account(Unwrap(found), provider))]]
    /\ opsStarted' = opsStarted + 1
    /\ UNCHANGED << users, nextId, now, signups, configs, auth_vars >>

\* AuthService::unlink_oauth_account from update_user on.
UnlinkUpdate(p, fails) ==
    /\ proc[p].pc = "ul_update"
    /\ LET user == Unwrap(proc[p].user)
           w == repo_write(update_user(users, user), users, fails) IN
       /\ users' = w.users
       /\ proc' = [Freed EXCEPT ![p] =
                     Persisted(Called(proc[p], "update_user"), w, user, now, FALSE)]
    /\ UNCHANGED << nextId, now, opsStarted, signups, configs, auth_vars >>

\* AuthService::get_user_from_token.
GetUserFromToken(p, token) ==
    /\ CanStart(p)
    /\ LET out == get_user_from_token(users, token, now) IN
       proc' = [Freed EXCEPT ![p] =
                  Returned([IdleProc EXCEPT !.op = "get_user_from_token",
                                            !.token = Some(token),
                                            !.calls = out.calls],
                           out.status, out.ret_user, None)]
    /\ opsStarted' = opsStarted + 1
    /\ UNCHANGED << users, nextId, now, signups, configs, auth_vars >>

\* AuthService::is_token_expired.
IsTokenExpired(p, token) ==
    /\ CanStart(p)
    /\ proc' = [Freed EXCEPT ![p] =
                  [Returned([IdleProc EXCEPT !.op = "is_token_expired",
                                             !.token = Some(token),
                                             !.calls = << "validate_access_token" >>],
                            "ok", None, None)
                   EXCEPT !.expired = is_token_expired(token, now)]]
    /\ opsStarted' = opsStarted + 1
    /\ UNCHANGED << users, nextId, now, signups, configs, auth_vars >>

\* AuthService::refresh_access_token.
RefreshAccessToken(p, refresh_token) ==
    /\ CanStart(p)
    /\ LET out == refresh_access_token(refresh_token, now) IN
       proc' = [Freed EXCEPT ![p] =
                  Returned([IdleProc EXCEPT !.op = "refresh_access_token",
                                            !.token = Some(refresh_token),
                                            !.calls = << "refresh_access_token" >>],
                           IF out.ok THEN "ok" ELSE out.err, None, out.tokens)]
    /\ opsStarted' = opsStarted + 1
    /\ UNCHANGED << users, nextId, now, signups, configs, auth_vars >>

\* AuthService::validate_access_token: the claims of the token, or the
\* token service's error.
ValidateAccessToken(p, token) ==
    /\ CanStart(p)
    /\ LET claims == validate_access_token(token, now) IN
       proc' = [Freed EXCEPT ![p] =
                  [Returned([IdleProc EXCEPT !.op = "validate_access_token",
                                             !.token = Some(token),
                                             !.calls = << "validate_access_token" >>],
                            IF claims.ok THEN "ok" ELSE claims.err, None, None)
                   EXCEPT !.ret = IF claims.ok
                                  THEN Some([sub |-> claims.sub, exp |-> claims.exp])
                                  ELSE None]]
    /\ opsStarted' = opsStarted + 1
    /\ UNCHANGED << users, nextId, now, signups, configs, auth_vars >>

\* AuthService::get_user_id_from_token.
GetUserIdFromToken(p, token) ==
    /\ CanStart(p)
    /\ LET user_id == get_user_id_from_token(token, now) IN
       proc' = [Freed EXCEPT ![p] =
                  [Returned([IdleProc EXCEPT !.op = "get_user_id_from_token",
                                             !.token = Some(token),
                                             !.calls = << "validate_access_token" >>],
                            IF user_id.ok THEN "ok" ELSE user_id.err, None, None)
                   EXCEPT !.ret = IF user_id.ok THEN Some(user_id.user_id) ELSE None]]
    /\ opsStarted' = opsStarted + 1
    /\ UNCHANGED << users, nextId, now, signups, configs, auth_vars >>

\* Mutant of GetLinkedOAuthProviders: the links the User is found with are
\* dropped from the stored User once they are reported.
GetLinkedOAuthProviders_consuming(p, user_id) ==
    /\ CanStart(p)
    /\ LET user == get_user_by_id(users, user_id)
           r == [IdleProc EXCEPT !.op = "get_linked_oauth_providers",
                                 !.user_id = user_id,
                                 !.calls = << "get_user_by_id" >>] IN
       /\ proc' = [Freed EXCEPT ![p] =
                     IF ~IsSome(user) THEN Returned(r, "UserNotFound", None, None)
                     ELSE [Returned(r, "ok", None, None)
                           EXCEPT !.ret = Some({ pr \in Providers :
                                                   IsSome(Unwrap(user).oauth_accounts[pr]) })]]
       /\ users' = IF IsSome(user)
                   THEN update_user(users, [Unwrap(user) EXCEPT !.oauth_accounts = NoAccounts]).users
                   ELSE users
    /\ opsStarted' = opsStarted + 1
    /\ UNCHANGED << nextId, now, signups, configs, auth_vars >>

\* AuthService::get_linked_oauth_providers: the keys of the User's
\* oauth_accounts (a Vec collected from a HashMap: the set of them).
GetLinkedOAuthProviders(p, user_id) ==
    /\ CanStart(p)
    /\ LET user == get_user_by_id(users, user_id)
           r == [IdleProc EXCEPT !.op = "get_linked_oauth_providers",
                                 !.user_id = user_id,
                                 !.calls = << "get_user_by_id" >>] IN
       proc' = [Freed EXCEPT ![p] =
                  IF ~IsSome(user) THEN Returned(r, "UserNotFound", None, None)
                  ELSE [Returned(r, "ok", None, None)
                        EXCEPT !.ret = Some({ pr \in Providers :
                                                IsSome(Unwrap(user).oauth_accounts[pr]) })]]
    /\ opsStarted' = opsStarted + 1
    /\ UNCHANGED << users, nextId, now, signups, configs, auth_vars >>

\* AuthService::get_tokens, called by the application.
GetTokens(p, id) ==
    /\ CanStart(p)
    /\ proc' = [Freed EXCEPT ![p] =
                  Returned([IdleProc EXCEPT !.op = "get_tokens", !.user_id = id,
                                            !.calls = << "generate_token_pair" >>],
                           "ok", None, Some(get_tokens(id, now)))]
    /\ opsStarted' = opsStarted + 1
    /\ UNCHANGED << users, nextId, now, signups, configs, auth_vars >>

\* The clock advances, far enough for a refresh token to expire.
TokenTick ==
    /\ now < MaxTokenTime
    /\ now' = now + 1
    /\ proc' = Freed
    /\ UNCHANGED << users, nextId, opsStarted, signups, configs, auth_vars >>

\* ------------------------------------------- the OAuth2 manager's operations
\* The scopes a caller passes to generate_auth_url.
CallerScopes == {None, Some(<< >>), Some(<< "email", "extra" >>), Some(<< "repo", "repo" >>)}

\* The provider tokens handed to fetch_user_info and refresh_token.
ProviderTokens ==
    { OAuth2Token(pr, "at1", r) : pr \in AllProviders, r \in {None, Some("rt1")} }

\* The managers a service is built with: no provider configured (the
\* default one), two providers configured with additional scopes, every
\* provider configured.
NoConfigs == [pr \in AllProviders |-> None]

SomeConfigs ==
    [pr \in AllProviders |->
       IF pr \in {"Google", "GitHub"} THEN Some(OAuth2Config(<< "openid", "repo" >>))
       ELSE None]

ManagerConfigs == {NoConfigs, SomeConfigs, ConfiguredForAll}

\* What a call of the manager hands back to its caller.
ManagerReturned(op, arg, result) ==
    [IdleProc EXCEPT !.pc = "done", !.op = op, !.arg = Some(arg),
                     !.status = IF result.ok THEN "ok" ELSE result.err,
                     !.ret = result.ret, !.requests = result.requests]

GenerateAuthUrl(p, provider, scopes) ==
    /\ CanStart(p)
    /\ proc' = [Freed EXCEPT ![p] =
                  ManagerReturned("generate_auth_url",
                                  [provider |-> provider, scopes |-> scopes],
                                  generate_auth_url(configs, provider, scopes))]
    /\ opsStarted' = opsStarted + 1
    /\ UNCHANGED << users, nextId, now, signups, configs, auth_vars >>

ExchangeCodeForToken(p, provider, response) ==
    /\ CanStart(p)
    /\ proc' = [Freed EXCEPT ![p] =
                  ManagerReturned("exchange_code_for_token",
                                  [provider |-> provider, response |-> response],
                                  exchange_code_for_token(configs, provider, response))]
    /\ opsStarted' = opsStarted + 1
    /\ UNCHANGED << users, nextId, now, signups, configs, auth_vars >>

FetchUserInfo(p, token, response) ==
    /\ CanStart(p)
    /\ proc' = [Freed EXCEPT ![p] =
                  ManagerReturned("fetch_user_info",
                                  [provider |-> token.provider, token |-> token,
                                   response |-> response],
                                  fetch_user_info(configs, token, response, now))]
    /\ opsStarted' = opsStarted + 1
    /\ UNCHANGED << users, nextId, now, signups, configs, auth_vars >>

RefreshToken(p, token, response) ==
    /\ CanStart(p)
    /\ proc' = [Freed EXCEPT ![p] =
                  ManagerReturned("refresh_token",
                                  [provider |-> token.provider, token |-> token,
                                   response |-> response],
                                  OAuth2Manager_refresh_token(configs, token, response))]
    /\ opsStarted' = opsStarted + 1
    /\ UNCHANGED << users, nextId, now, signups, configs, auth_vars >>

GetRedirectFrontendUri(p, provider) ==
    /\ CanStart(p)
    /\ proc' = [Freed EXCEPT ![p] =
                  ManagerReturned("get_redirect_frontend_uri", [provider |-> provider],
                                  get_redirect_frontend_uri(configs, provider))]
    /\ opsStarted' = opsStarted + 1
    /\ UNCHANGED << users, nextId, now, signups, configs, auth_vars >>

\* parse_user_info applied to a response body of the provider.
ParseUserInfo(p, provider, response_body) ==
    /\ CanStart(p)
    /\ LET parsed == parse_user_info(provider, response_body, now) IN
       proc' = [Freed EXCEPT ![p] =
                  ManagerReturned("parse_user_info",
                                  [provider |-> provider, body |-> response_body],
                                  [ok |-> parsed.ok, err |-> parsed.err,
                                   ret |-> parsed.info, requests |-> << >>])]
    /\ opsStarted' = opsStarted + 1
    /\ UNCHANGED << users, nextId, now, signups, configs, auth_vars >>

\* A service built with any of the managers; nothing else has happened.
ManagerInit ==
    /\ users = << >>
    /\ nextId = 0
    /\ now = 0
    /\ proc = [p \in Procs |-> IdleProc]
    /\ opsStarted = 0
    /\ signups = {}
    /\ configs \in ManagerConfigs
    /\ auth_vars = [token_expiration |-> token_expiration,
                    refresh_token_expiration |-> refresh_token_expiration]

\* The manager's operations, one call at a time.
ManagerNext ==
    \/ \E pr \in AllProviders, sc \in CallerScopes : GenerateAuthUrl(1, pr, sc)
    \/ \E pr \in AllProviders, r \in TokenResponses : ExchangeCodeForToken(1, pr, r)
    \/ \E tk \in ProviderTokens :
          \E r \in UserInfoResponses(tk.provider) : FetchUserInfo(1, tk, r)
    \/ \E tk \in ProviderTokens, r \in TokenResponses : RefreshToken(1, tk, r)
    \/ \E pr \in AllProviders : GetRedirectFrontendUri(1, pr)
    \/ \E pr \in AllProviders : \E b \in Bodies(pr) : ParseUserInfo(1, pr, b)

ManagerSpec == ManagerInit /\ [][ManagerNext]_vars

Next ==
    \/ Tick
    \/ \E p \in Procs, i \in Identifiers, pw \in Passwords, f \in BOOLEAN :
          LoginCredentials(p, i, pw, f)
    \/ \E p \in Procs, i \in Identifiers, pw \in Passwords : SignupCredentialsBegin(p, i, pw)
    \/ \E p \in Procs, f \in BOOLEAN : SignupCredentialsAdd(p, f)
    \/ \E p \in Procs, op \in {"login_oauth2", "signup_oauth2"}, pr \in Providers :
          \E o \in OAuthOutcomes(pr, now) : OAuthBegin(p, op, pr, o)
    \/ \E p \in Procs : OAuthLookupId(p)
    \/ \E p \in Procs : OAuthLookupEmail(p)
    \/ \E p \in Procs, f \in BOOLEAN : OAuthUpdate(p, f)
    \/ \E p \in Procs, f \in BOOLEAN : OAuthAdd(p, f)
    \/ \E p \in Procs, id \in 1..MaxIds, pr \in Providers :
          \E o \in OAuthOutcomes(pr, now) : LinkBegin(p, id, pr, o)
    \/ \E p \in Procs, f \in BOOLEAN : LinkUpdate(p, f)
    \/ \E p \in Procs, id \in 1..MaxIds, pr \in Providers : UnlinkBegin(p, id, pr)
    \/ \E p \in Procs, f \in BOOLEAN : UnlinkUpdate(p, f)

Spec == Init /\ [][Next]_vars
\* One request at a time: only slot 1 is used, so a request starts when the
\* one before it has returned.
SeqNext ==
    \/ Tick
    \/ \E i \in Identifiers, pw \in Passwords, f \in BOOLEAN : LoginCredentials(1, i, pw, f)
    \/ \E i \in Identifiers, pw \in Passwords : SignupCredentialsBegin(1, i, pw)
    \/ \E f \in BOOLEAN : SignupCredentialsAdd(1, f)
    \/ \E op \in {"login_oauth2", "signup_oauth2"}, pr \in Providers :
          \E o \in OAuthOutcomes(pr, now) : OAuthBegin(1, op, pr, o)
    \/ OAuthLookupId(1)
    \/ OAuthLookupEmail(1)
    \/ \E f \in BOOLEAN : OAuthUpdate(1, f)
    \/ \E f \in BOOLEAN : OAuthAdd(1, f)
    \/ \E id \in 1..MaxIds, pr \in Providers :
          \E o \in OAuthOutcomes(pr, now) : LinkBegin(1, id, pr, o)
    \/ \E f \in BOOLEAN : LinkUpdate(1, f)
    \/ \E id \in 1..MaxIds, pr \in Providers : UnlinkBegin(1, id, pr)
    \/ \E f \in BOOLEAN : UnlinkUpdate(1, f)

SeqSpec == Init /\ [][SeqNext]_vars

\* The token operations, on the stores signups build, one request at a time;
\* the operations read the store and the clock and write nothing.
TokenNext ==
    \/ TokenTick
    \/ \E i \in Identifiers, pw \in Passwords : SignupCredentialsBegin(1, i, pw)
    \/ \E f \in BOOLEAN : SignupCredentialsAdd(1, f)
    \/ \E id \in 1..MaxIds : GetTokens(1, id)
    \/ \E tk \in Tokens(now) : GetUserFromToken(1, tk)
    \/ \E tk \in Tokens(now) : IsTokenExpired(1, tk)
    \/ \E tk \in Tokens(now) : RefreshAccessToken(1, tk)

TokenSpec == Init /\ [][TokenNext]_vars

\* The requests of SeqSpec, and get_user_from_token on any token string: a
\* caller that presents the access token a login or signup returned does so
\* in the request after it.
SessionNext ==
    \/ SeqNext
    \/ \E tk \in Tokens(now) : GetUserFromToken(1, tk)

SessionSpec == Init /\ [][SessionNext]_vars

\* The requests of SeqSpec and the operations that only read: the token
\* operations and get_linked_oauth_providers, on the stores the others build.
ReadNext ==
    \/ SeqNext
    \/ \E tk \in Tokens(now) : ValidateAccessToken(1, tk)
    \/ \E tk \in Tokens(now) : IsTokenExpired(1, tk)
    \/ \E tk \in Tokens(now) : GetUserIdFromToken(1, tk)
    \/ \E tk \in Tokens(now) : GetUserFromToken(1, tk)
    \/ \E id \in 1..MaxIds : GetTokens(1, id)
    \/ \E id \in 1..MaxIds : GetLinkedOAuthProviders(1, id)

ReadSpec == Init /\ [][ReadNext]_vars

\* Signups and OAuth2 logins and signups, one request at a time, with
\* profiles that carry each value of the verified-email flag.
FlagNext ==
    \/ \E i \in Identifiers, pw \in Passwords : SignupCredentialsBegin(1, i, pw)
    \/ \E f \in BOOLEAN : SignupCredentialsAdd(1, f)
    \/ \E op \in {"login_oauth2", "signup_oauth2"}, pr \in Providers :
          \E o \in OAuthOutcomesWithFlag(pr, now) : OAuthBegin(1, op, pr, o)
    \/ OAuthLookupId(1)
    \/ OAuthLookupEmail(1)
    \/ \E f \in BOOLEAN : OAuthUpdate(1, f)
    \/ \E f \in BOOLEAN : OAuthAdd(1, f)

FlagSpec == Init /\ [][FlagNext]_vars

\* ----------------------------------------------- services built differently
\* A manager with a config for Google only.
GoogleOnly ==
    [pr \in AllProviders |-> IF pr = "Google" THEN Some(OAuth2Config(<< >>)) ELSE None]

\* The managers a service is built with.
ServiceConfigs == {NoConfigs, GoogleOnly, ConfiguredForAll}

\* The token lifetimes a service is built with: AuthService::new hands
\* vars.token_expiration and vars.refresh_token_expiration to
\* JwtTokenService::new as they are.
Lifetimes ==
    { [token_expiration |-> a, refresh_token_expiration |-> r] :
        a \in {token_expiration, refresh_token_expiration},
        r \in {token_expiration, refresh_token_expiration} }

\* AuthService::new with any of the managers and any of the lifetimes.
ConfigInit ==
    /\ users = << >>
    /\ nextId = 0
    /\ now = 0
    /\ proc = [p \in Procs |-> IdleProc]
    /\ opsStarted = 0
    /\ signups = {}
    /\ configs \in ServiceConfigs
    /\ auth_vars \in Lifetimes

\* The operations that reach the manager or issue tokens, and the manager's
\* own, one request at a time.
ConfigNext ==
    \/ \E i \in Identifiers, pw \in Passwords : SignupCredentialsBegin(1, i, pw)
    \/ \E f \in BOOLEAN : SignupCredentialsAdd(1, f)
    \/ \E op \in {"login_oauth2", "signup_oauth2"}, pr \in Providers :
          \E o \in OAuthOutcomes(pr, now) : OAuthBegin(1, op, pr, o)
    \/ OAuthLookupId(1)
    \/ OAuthLookupEmail(1)
    \/ \E f \in BOOLEAN : OAuthUpdate(1, f)
    \/ \E f \in BOOLEAN : OAuthAdd(1, f)
    \/ \E id \in 1..MaxIds, pr \in Providers :
          \E o \in OAuthOutcomes(pr, now) : LinkBegin(1, id, pr, o)
    \/ \E f \in BOOLEAN : LinkUpdate(1, f)
    \/ \E id \in 1..MaxIds : GetTokens(1, id)
    \/ \E pr \in Providers : GenerateAuthUrl(1, pr, None)
    \/ \E pr \in Providers, r \in TokenResponses : ExchangeCodeForToken(1, pr, r)
    \/ \E pr \in Providers :
          \E r \in UserInfoResponses(pr) :
             FetchUserInfo(1, OAuth2Token(pr, "at1", Some("rt1")), r)
    \/ \E pr \in Providers, r \in TokenResponses :
          RefreshToken(1, OAuth2Token(pr, "at1", Some("rt1")), r)
    \/ \E pr \in Providers : GetRedirectFrontendUri(1, pr)

ConfigSpec == ConfigInit /\ [][ConfigNext]_vars

\* ------------------------------------------------------------------ claims
\* Vocabulary of the claims.
HasIdentifier(u, identifier) ==
    IsSome(u.credentials) /\ Unwrap(u.credentials).identifier = identifier

LinkedTo(u, provider, sub) ==
    IsSome(u.oauth_accounts[provider])
    /\ Unwrap(u.oauth_accounts[provider]).provider_user_id = sub

\* Request p took a step.
Stepped(p) == proc'[p] # proc[p]

\* Request p returns in this step, from position pc.
Returns(p, pc) == proc[p].pc = pc /\ proc'[p].pc = "done"

OAuthOps == {"login_oauth2", "signup_oauth2"}

\* C1: a login(Credentials) with an (identifier, password) pair for which a
\* signup(Credentials) returned Ok before succeeds and returns the User with
\* the id that signup returned.
C1_LoginAfterSignup ==
    [][\A p \in Procs : \A s \in signups :
         ( /\ proc'[p].pc = "done"
           /\ proc'[p].op = "login_credentials"
           /\ proc'[p].identifier = s.identifier
           /\ proc'[p].password = s.password )
         => /\ proc'[p].status = "ok"
            /\ Unwrap(proc'[p].ret_user).id = s.id]_vars

\* C2: a signup(Credentials) with an identifier a stored User already has
\* fails with SignupError, and the store never holds two Users with the same
\* identifier.
C2_UniqueIdentifier ==
    [][ /\ \A p \in Procs :
             ( /\ Returns(p, "sc_add")
               /\ \E i \in 1..Len(users) : HasIdentifier(users[i], proc[p].identifier) )
             => proc'[p].status = "SignupError"
        /\ \A i, j \in 1..Len(users') :
             ( /\ i # j
               /\ IsSome(users'[i].credentials)
               /\ IsSome(users'[j].credentials) )
             => Unwrap(users'[i].credentials).identifier
                  # Unwrap(users'[j].credentials).identifier ]_vars

\* C3: no (provider, provider-subject-id) pair is linked to two Users of the
\* store.
C3_UniqueExternalIdentity ==
    \A i, j \in 1..Len(users) : \A pr \in Providers : \A sub \in Subjects :
        (LinkedTo(users[i], pr, sub) /\ LinkedTo(users[j], pr, sub)) => i = j

C5_TokenSubject ==
    \A p \in Procs :
        ( /\ proc[p].pc = "done"
          /\ proc[p].status = "ok"
          /\ proc[p].op \in {"login_credentials", "signup_credentials"} \cup OAuthOps )
        => /\ IsSome(proc[p].tokens)
           /\ LET claims == validate_access_token(Unwrap(proc[p].tokens).access_token, now)
              IN claims.ok /\ claims.sub = Unwrap(proc[p].ret_user).id

\* C5 witness: an OAuth2 signup has returned Ok at a time after the start.
C5_Witness ==
    \E p \in Procs :
        /\ proc[p].pc = "done"
        /\ proc[p].status = "ok"
        /\ proc[p].op = "signup_oauth2"
        /\ now > 0
        /\ Unwrap(proc[p].ret_user).id = 2

\* C6: an OAuth2 login that found no User by (provider, subject-id) and whose
\* profile email is the identifier of a stored User takes that User, and on
\* success has attached the link to it, returns it with its id, and has
\* added no User.
C6_EmailMerge ==
    [][\A p \in Procs :
         /\ ( /\ proc[p].pc = "oa_lookup_email"
              /\ Stepped(p)
              /\ \E i \in 1..Len(users) :
                    HasIdentifier(users[i], Unwrap(Unwrap(proc[p].info).email)) )
            => /\ proc'[p].pc = "oa_update"
               /\ proc'[p].branch = "email"
               /\ HasIdentifier(Unwrap(proc'[p].user), Unwrap(Unwrap(proc[p].info).email))
               /\ \E i \in 1..Len(users) : users[i].id = Unwrap(proc'[p].user).id
               /\ users' = users
         /\ ( /\ Returns(p, "oa_update")
              /\ proc[p].branch = "email"
              /\ proc'[p].status = "ok" )
            => /\ Len(users') = Len(users)
               /\ \A i \in 1..Len(users) : users'[i].id = users[i].id
               /\ Unwrap(proc'[p].ret_user).id = Unwrap(proc[p].user).id
               /\ \E i \in 1..Len(users') :
                     /\ users'[i].id = Unwrap(proc[p].user).id
                     /\ users'[i].oauth_accounts[proc[p].provider] = proc[p].info
                     /\ users'[i].credentials = users[i].credentials]_vars

\* C6 witness: an OAuth2 login has returned Ok through the email branch.
C6_Witness ==
    \E p \in Procs :
        /\ proc[p].pc = "done"
        /\ proc[p].status = "ok"
        /\ proc[p].op = "login_oauth2"
        /\ proc[p].branch = "email"
        /\ Len(users) = 1
        /\ HasIdentifier(users[1], "alice@example.com")
        /\ users[1].oauth_accounts[proc[p].provider] = proc[p].info

\* C7: an OAuth2 login with a (provider, subject-id) some stored User is
\* linked to takes such a User, and on success has replaced that User's link
\* of the provider by the fresh profile, returns the same id, and has added
\* no User.
C7_Relogin ==
    [][\A p \in Procs :
         /\ ( /\ proc[p].pc = "oa_lookup_id"
              /\ Stepped(p)
              /\ \E i \in 1..Len(users) :
                    LinkedTo(users[i], proc[p].provider,
                             Unwrap(proc[p].info).provider_user_id) )
            => /\ proc'[p].pc = "oa_update"
               /\ proc'[p].branch = "exact"
               /\ \E i \in 1..Len(users) :
                     /\ users[i].id = Unwrap(proc'[p].user).id
                     /\ LinkedTo(users[i], proc[p].provider,
                                 Unwrap(proc[p].info).provider_user_id)
               /\ users' = users
               /\ nextId' = nextId
         /\ ( /\ Returns(p, "oa_update")
              /\ proc[p].branch = "exact"
              /\ proc'[p].status = "ok" )
            => /\ Len(users') = Len(users)
               /\ \A i \in 1..Len(users) : users'[i].id = users[i].id
               /\ Unwrap(proc'[p].ret_user).id = Unwrap(proc[p].user).id
               /\ Unwrap(proc'[p].ret_user).oauth_accounts[proc[p].provider] = proc[p].info
               /\ \E i \in 1..Len(users') :
                     /\ users'[i].id = Unwrap(proc[p].user).id
                     /\ users'[i].oauth_accounts[proc[p].provider] = proc[p].info]_vars

\* C7 witness: an OAuth2 login has returned Ok through the exact-match
\* branch, with the display name the provider changed to after the start.
C7_Witness ==
    \E p \in Procs :
        /\ proc[p].pc = "done"
        /\ proc[p].status = "ok"
        /\ proc[p].op = "login_oauth2"
        /\ proc[p].branch = "exact"
        /\ Unwrap(proc[p].info).name = "n2"
        /\ Len(users) = 1
        /\ users[1].oauth_accounts[proc[p].provider] = proc[p].info

\* C8: an OAuth2 login or signup that creates a User leaves no other User of
\* the store linked to the same (provider, subject-id), however the lookups
\* and writes of concurrent requests interleave.
C8_NoDuplicateIdentity ==
    [][\A p \in Procs :
         ( /\ Returns(p, "oa_add")
           /\ proc'[p].status = "ok" )
         => \A i \in 1..Len(users') :
               LinkedTo(users'[i], proc[p].provider, Unwrap(proc[p].info).provider_user_id)
               => users'[i].id = Unwrap(proc[p].user).id]_vars

\* C9: when the insert of the create-new-user step fails, the request goes
\* back to the lookup and does not return the failure.
C9_ConflictReresolves ==
    [][\A p \in Procs :
         ( /\ proc[p].pc = "oa_add"
           /\ Stepped(p)
           /\ users' = users )
         => /\ proc'[p].pc = "oa_lookup_id"
            /\ proc'[p].status = "none"]_vars

\* C10: of two signups with the same identifier that both wait to insert,
\* once one has inserted, the insert of the other is refused.
C10_RacingInserts ==
    [][\A p, q \in Procs :
         ( /\ p # q
           /\ Returns(p, "sc_add")
           /\ proc'[p].status = "ok"
           /\ proc[q].pc = "sc_add"
           /\ proc[q].identifier = proc[p].identifier )
         => ~add_user(users', Unwrap(proc[q].user)).ok]_vars

\* C11: every User of the store has local credentials, at least one linked
\* account, or both.
C11_CredentialsOrLink ==
    \A i \in 1..Len(users) :
        \/ IsSome(users[i].credentials)
        \/ \E pr \in Providers : IsSome(users[i].oauth_accounts[pr])

\* A request starts in slot p with this step.
Starts(p, op) == Free(p) /\ proc'[p].op = op /\ proc'[p].pc # "idle"

\* The stored Users with internal id id.
StoredWithId(us, id) == { i \in 1..Len(us) : us[i].id = id }

\* C12: unlink_oauth_account for a provider the loaded User has no link for
\* makes no error of it and holds the User unchanged (same id, credentials
\* and links); an unlink that returns Ok returns the User it held, which is
\* the User stored afterwards and which a further unlink of the provider
\* leaves as it is.  The one failure left is a failed write of the store.
C12_UnlinkAbsent ==
    [][\A p \in Procs :
         /\ \A i \in 1..Len(users) :
              ( /\ Starts(p, "unlink_oauth_account")
                /\ users[i].id = proc'[p].user_id
                /\ ~IsSome(users[i].oauth_accounts[proc'[p].provider]) )
              => /\ proc'[p].pc = "ul_update"
                 /\ proc'[p].user = Some(users[i])
         /\ Returns(p, "ul_update")
            => /\ proc'[p].status \in {"ok", "RepositoryError"}
               /\ proc'[p].status = "RepositoryError" => users' = users
               /\ proc'[p].status = "ok"
                  => /\ proc'[p].ret_user = proc[p].user
                     /\ \A i \in StoredWithId(users', proc[p].user_id) :
                           users'[i] = Unwrap(proc'[p].ret_user)
                     /\ User_unlink_oauth_account(Unwrap(proc'[p].ret_user), proc[p].provider)
                           = Unwrap(proc'[p].ret_user)]_vars

\* C12 witness: the second request of a behaviour, an unlink of GitHub from a
\* User linked to Google only, has returned Ok and the User keeps the link.
C12_Witness ==
    \E p \in Procs :
        /\ proc[p].pc = "done"
        /\ proc[p].op = "unlink_oauth_account"
        /\ proc[p].status = "ok"
        /\ proc[p].provider = "GitHub"
        /\ opsStarted = 2
        /\ Len(users) = 1
        /\ IsSome(users[1].oauth_accounts["Google"])
        /\ proc[p].ret_user = Some(users[1])

\* C13: link_oauth_account and unlink_oauth_account with a user id no stored
\* User has return UserNotFound and leave the store as it is; the only call
\* made is get_user_by_id, so link_oauth_account fails before the exchange.
C13_UserNotFound ==
    [][\A p \in Procs :
         ( /\ \/ Starts(p, "link_oauth_account")
              \/ Starts(p, "unlink_oauth_account")
           /\ StoredWithId(users, proc'[p].user_id) = {} )
         => /\ proc'[p].pc = "done"
            /\ proc'[p].status = "UserNotFound"
            /\ proc'[p].ret_user = None
            /\ proc'[p].calls = << "get_user_by_id" >>
            /\ users' = users]_vars

\* C13 witness: a link_oauth_account for an id the store, which holds a
\* User, does not know has returned UserNotFound.
C13_Witness ==
    \E p \in Procs :
        /\ proc[p].pc = "done"
        /\ proc[p].op = "link_oauth_account"
        /\ proc[p].status = "UserNotFound"
        /\ Len(users) = 1
        /\ StoredWithId(users, proc[p].user_id) = {}

\* C14: a link_oauth_account that returns Ok returns a User with the id it
\* was called with, has set the link of the provider on the stored User of
\* that id, and has left every other stored User and every other link (and
\* the credentials) of that User as they were.
C14_LinkFrame ==
    [][\A p \in Procs :
         ( /\ Returns(p, "lk_update")
           /\ proc'[p].status = "ok" )
         => /\ Unwrap(proc'[p].ret_user).id = proc[p].user_id
            /\ Len(users') = Len(users)
            /\ \A i \in 1..Len(users) :
                 IF users[i].id # proc[p].user_id
                 THEN users'[i] = users[i]
                 ELSE /\ users'[i].id = users[i].id
                      /\ users'[i].credentials = users[i].credentials
                      /\ LinkedTo(users'[i], proc[p].provider,
                                  Unwrap(proc[p].info).provider_user_id)
                      /\ \A pr \in Providers \ {proc[p].provider} :
                            users'[i].oauth_accounts[pr] = users[i].oauth_accounts[pr]]_vars

\* Another stored User than the one with id user_id is linked to
\* (provider, sub).
HeldByOther(us, user_id, provider, sub) ==
    \E j \in 1..Len(us) : us[j].id # user_id /\ LinkedTo(us[j], provider, sub)

\* C15: link_oauth_account does not look whether another User holds the
\* external identity.  Its only failures are UserNotFound, the provider's
\* errors and a failed write of the store; when another stored User is
\* linked to the (provider, subject-id) it is about to write, it writes all
\* the same: on Ok the target User is stored with the link and the other
\* User keeps its own.
C15_LinkUnchecked ==
    [][\A p \in Procs :
         /\ ( Starts(p, "link_oauth_account") /\ proc'[p].pc = "done" )
            => proc'[p].status \in {"UserNotFound"} \cup OAuthErrors
         /\ ( /\ Returns(p, "lk_update")
              /\ HeldByOther(users, proc[p].user_id, proc[p].provider,
                             Unwrap(proc[p].info).provider_user_id) )
            => /\ proc'[p].status \in {"ok", "RepositoryError"}
               /\ proc'[p].status = "RepositoryError" => users' = users
               /\ proc'[p].status = "ok"
                  => /\ \A i \in StoredWithId(users', proc[p].user_id) :
                           LinkedTo(users'[i], proc[p].provider,
                                    Unwrap(proc[p].info).provider_user_id)
                     /\ HeldByOther(users', proc[p].user_id, proc[p].provider,
                                    Unwrap(proc[p].info).provider_user_id)]_vars

\* C15 witness: a link_oauth_account has returned Ok and two stored Users
\* are linked to the (provider, subject-id) it attached.
C15_Witness ==
    \E p \in Procs :
        /\ proc[p].pc = "done"
        /\ proc[p].op = "link_oauth_account"
        /\ proc[p].status = "ok"
        /\ Len(users) = 2
        /\ LET sub == Unwrap(proc[p].info).provider_user_id IN
           /\ LinkedTo(users[1], proc[p].provider, sub)
           /\ LinkedTo(users[2], proc[p].provider, sub)

\* C16: get_user_from_token on a token that does not validate returns the
\* validation failure and makes no call on the store; on a token that
\* validates to a subject no stored User has as id it returns UserNotFound.
C16_Introspect ==
    \A p \in Procs :
        ( /\ proc[p].pc = "done"
          /\ proc[p].op = "get_user_from_token" )
        => LET claims == validate_access_token(Unwrap(proc[p].token), now) IN
           /\ ~claims.ok
              => /\ proc[p].status = claims.err
                 /\ proc[p].ret_user = None
                 /\ proc[p].calls = << "validate_access_token" >>
           /\ ( claims.ok /\ StoredWithId(users, claims.sub) = {} )
              => /\ proc[p].status = "UserNotFound"
                 /\ proc[p].ret_user = None

\* C16 witness: get_user_from_token on a valid access token whose subject is
\* not in the store, which holds a User, has returned UserNotFound.
C16_Witness ==
    \E p \in Procs :
        /\ proc[p].pc = "done"
        /\ proc[p].op = "get_user_from_token"
        /\ proc[p].status = "UserNotFound"
        /\ validate_access_token(Unwrap(proc[p].token), now).ok
        /\ Len(users) = 1

\* C17: is_token_expired returns true exactly when validate_access_token
\* fails on the token, whatever the cause (a malformed string, a refresh
\* token, an expired access token), and false exactly when it succeeds.
C17_IsExpired ==
    \A p \in Procs :
        ( /\ proc[p].pc = "done"
          /\ proc[p].op = "is_token_expired" )
        => LET token == Unwrap(proc[p].token) IN
           /\ proc[p].expired = ~validate_access_token(token, now).ok
           /\ proc[p].expired = ( \/ token.token_type = "malformed"
                                  \/ token.token_type = "refresh"
                                  \/ token.exp <= now )

\* C17 witness: is_token_expired has returned true for a refresh token that
\* has not expired.
C17_Witness ==
    \E p \in Procs :
        /\ proc[p].pc = "done"
        /\ proc[p].op = "is_token_expired"
        /\ proc[p].expired
        /\ Unwrap(proc[p].token).token_type = "refresh"
        /\ Unwrap(proc[p].token).exp > now

\* C18: refresh_access_token with the refresh token of a pair issued for a
\* subject, not yet expired, returns a new pair whose access token validates
\* to claims with that subject.
C18_RefreshSubject ==
    \A p \in Procs :
        ( /\ proc[p].pc = "done"
          /\ proc[p].op = "refresh_access_token"
          /\ \E id \in 1..MaxIds, iat \in 0..now :
                /\ Unwrap(proc[p].token) = generate_token_pair(id, iat).refresh_token
                /\ Unwrap(proc[p].token).exp > now )
        => /\ proc[p].status = "ok"
           /\ IsSome(proc[p].tokens)
           /\ LET claims == validate_access_token(Unwrap(proc[p].tokens).access_token, now) IN
              claims.ok /\ claims.sub = Unwrap(proc[p].token).sub

\* C18 witness: a refresh with the refresh token issued at the start for the
\* one stored User, whose access token has expired since, has returned a pair.
C18_Witness ==
    \E p \in Procs :
        /\ proc[p].pc = "done"
        /\ proc[p].op = "refresh_access_token"
        /\ proc[p].status = "ok"
        /\ Unwrap(proc[p].token) = generate_token_pair(1, 0).refresh_token
        /\ now = 1
        /\ Len(users) = 1
        /\ users[1].id = 1
        /\ Unwrap(proc[p].tokens).access_token.sub = 1

\* C19: refresh_access_token with an access token, or with a refresh token
\* that has expired, returns InvalidToken and no pair.
C19_RefreshRejects ==
    \A p \in Procs :
        ( /\ proc[p].pc = "done"
          /\ proc[p].op = "refresh_access_token"
          /\ \/ Unwrap(proc[p].token).token_type = "access"
             \/ /\ Unwrap(proc[p].token).token_type = "refresh"
                /\ Unwrap(proc[p].token).exp <= now )
        => /\ proc[p].status = "InvalidToken"
           /\ proc[p].tokens = None

\* C19 witness: a refresh with a refresh token that has expired has returned
\* InvalidToken.
C19_Witness ==
    \E p \in Procs :
        /\ proc[p].pc = "done"
        /\ proc[p].op = "refresh_access_token"
        /\ proc[p].status = "InvalidToken"
        /\ Unwrap(proc[p].token).token_type = "refresh"
        /\ Unwrap(proc[p].token).exp <= now

\* No call occurs twice in the record of calls.
NoRepeat(calls) ==
    \A i, j \in 1..Len(calls) : calls[i] = calls[j] => i = j

\* The collaborator step whose failure a status reports.
FailedStep(status) ==
    CASE status = "OAuthTokenExchange" -> {"exchange_code_for_token"}
      [] status = "OAuthUserInfo" -> {"fetch_user_info"}
      [] status = "InvalidPassword" -> {"hash_password"}
      [] status = "PasswordVerificationError" -> {"verify_password"}
      [] status = "SignupError" -> {"add_user"}
      [] status = "RepositoryError" -> {"add_user", "update_user"}
      [] OTHER -> {}

C21_StableUniqueIds ==
    [][ /\ Len(users') >= Len(users)
        /\ \A i \in 1..Len(users) : users'[i].id = users[i].id
        /\ \A i, j \in 1..Len(users') : users'[i].id = users'[j].id => i = j ]_vars

\* C21 witness: a store of two Users, made by a signup and an OAuth2 login,
\* on which a link_oauth_account for the second User has returned Ok.
C21_Witness ==
    \E p \in Procs :
        /\ proc[p].pc = "done"
        /\ proc[p].op = "link_oauth_account"
        /\ proc[p].status = "ok"
        /\ proc[p].user_id = 2
        /\ Len(users) = 2
        /\ users[1].id = 1
        /\ users[2].id = 2

\* ------------------------------------------------------------------- C22
\* The elements of a Vec, as a set.
Range(v) == { v[i] : i \in 1..Len(v) }

\* C22: the scopes generate_auth_url puts in the authorization URL are, as a
\* set, the union of the provider's default scopes, the caller's scopes and
\* the config's additional scopes, and no scope is there twice.
C22_ScopesAreTheUnion ==
    \A p \in Procs :
        (proc[p].pc = "done" /\ proc[p].op = "generate_auth_url" /\ proc[p].status = "ok") =>
            LET a == Unwrap(proc[p].arg)
                url_scopes == Unwrap(proc[p].ret)
            IN /\ Range(url_scopes) =
                    Range(default_scopes(a.provider))
                    \cup (IF IsSome(a.scopes) THEN Range(Unwrap(a.scopes)) ELSE {})
                    \cup Range(Unwrap(configs[a.provider]).additional_scopes)
               /\ NoRepeat(url_scopes)

\* C22 witness: an authorization URL for Google, whose default scopes share
\* "email" with the caller's scopes and "openid" with the additional
\* scopes, neither next to its duplicate in the merged list.
C22_Witness ==
    \E p \in Procs :
        /\ proc[p].pc = "done"
        /\ proc[p].op = "generate_auth_url"
        /\ proc[p].status = "ok"
        /\ Unwrap(proc[p].arg).provider = "Google"
        /\ Unwrap(proc[p].arg).scopes = Some(<< "email", "extra" >>)
        /\ configs = SomeConfigs
        /\ Unwrap(proc[p].ret) = << "email", "extra", "openid", "profile", "repo" >>

\* ------------------------------------------------------------------- C23
\* The keys of a provider's response a field of the profile is read from.
SourceKeys(provider, field) ==
    CASE provider = "Google" ->
           (CASE field = "email" -> {"email"} [] field = "name" -> {"name"}
              [] field = "avatar_url" -> {"picture"}
              [] field = "verified_email" -> {"verified_email"}
              [] field = "locale" -> {"locale"})
      [] provider = "GitHub" ->
           (CASE field = "email" -> {"email"} [] field = "name" -> {"name"}
              [] field = "avatar_url" -> {"avatar_url"}
              [] field = "verified_email" -> {}
              [] field = "locale" -> {})
      [] provider = "Discord" ->
           (CASE field = "email" -> {"email"} [] field = "name" -> {"username"}
              [] field = "avatar_url" -> {"avatar"}
              [] field = "verified_email" -> {"verified"}
              [] field = "locale" -> {"locale"})
      [] provider = "Microsoft" ->
           (CASE field = "email" -> {"mail", "userPrincipalName"}
              [] field = "name" -> {"displayName"}
              [] field = "avatar_url" -> {}
              [] field = "verified_email" -> {}
              [] field = "locale" -> {})

OptionalFields == {"email", "name", "avatar_url", "verified_email", "locale"}

\* The response has a subject id of the type the provider sends: a number
\* for GitHub, a string for the others.
HasSubjectId(provider, body) ==
    IF provider = "GitHub" THEN body["id"].kind = "number" ELSE body["id"].kind = "string"

\* C23: for each provider, parse_user_info on a response without a subject id
\* fails with OAuthInvalidResponse; on a response with the id it succeeds,
\* carries the id, and every optional field the response lacks is absent.
C23_ParseUserInfo ==
    \A p \in Procs :
        (proc[p].pc = "done" /\ proc[p].op = "parse_user_info") =>
            LET a == Unwrap(proc[p].arg) IN
            IF ~HasSubjectId(a.provider, a.body)
            THEN proc[p].status = "OAuthInvalidResponse" /\ proc[p].ret = None
            ELSE /\ proc[p].status = "ok"
                 /\ IsSome(proc[p].ret)
                 /\ Unwrap(proc[p].ret).provider = a.provider
                 /\ Unwrap(proc[p].ret).provider_user_id =
                      (IF a.provider = "GitHub" THEN ToString(a.body["id"].n)
                       ELSE a.body["id"].s)
                 /\ \A f \in OptionalFields :
                      (\A k \in SourceKeys(a.provider, f) : a.body[k] = JNull)
                          => Unwrap(proc[p].ret)[f] = None

\* C23 witness: a Discord response with the id and the email and nothing
\* else has been parsed: the email is there, the other fields are absent.
C23_Witness ==
    \E p \in Procs :
        /\ proc[p].pc = "done"
        /\ proc[p].op = "parse_user_info"
        /\ proc[p].status = "ok"
        /\ Unwrap(proc[p].arg).provider = "Discord"
        /\ Unwrap(proc[p].arg).body =
             JsonObject([id |-> JStr("s1"), email |-> JStr("alice@example.com")])
        /\ Unwrap(proc[p].ret).email = Some("alice@example.com")
        /\ \A f \in OptionalFields \ {"email"} : Unwrap(proc[p].ret)[f] = None

\* ------------------------------------------------------------------- C24
\* C24: with a config for the provider, fetch_user_info answers a transport
\* failure with OAuthNetwork, a non-success status with OAuthUserInfo, a body
\* that is not JSON or has no subject id with OAuthInvalidResponse, and
\* exchange_code_for_token answers a failed exchange with OAuthTokenExchange.
C24_DistinctFailurePoints ==
    \A p \in Procs :
        /\ (proc[p].pc = "done" /\ proc[p].op = "fetch_user_info"
            /\ IsSome(configs[Unwrap(proc[p].arg).provider])) =>
              LET r == Unwrap(proc[p].arg).response
                  pr == Unwrap(proc[p].arg).provider
              IN /\ (~r.sent \/ (r.success /\ ~r.complete))
                       => proc[p].status = "OAuthNetwork"
                 /\ (r.sent /\ ~r.success) => proc[p].status = "OAuthUserInfo"
                 /\ (r.sent /\ r.success /\ r.complete
                     /\ (~r.json \/ ~HasSubjectId(pr, r.body)))
                       => proc[p].status = "OAuthInvalidResponse"
        /\ (proc[p].pc = "done" /\ proc[p].op = "exchange_code_for_token"
            /\ IsSome(configs[Unwrap(proc[p].arg).provider])
            /\ ~Unwrap(proc[p].arg).response.ok)
              => proc[p].status = "OAuthTokenExchange"

ConfiguredOps ==
    {"generate_auth_url", "exchange_code_for_token", "fetch_user_info",
     "refresh_token", "get_redirect_frontend_uri"}

C27_AccessShorter ==
    \A p \in Procs :
        (proc[p].pc = "done" /\ IsSome(proc[p].tokens)) =>
            LET pair == Unwrap(proc[p].tokens) IN
            pair.access_token.exp - pair.access_token.iat
                < pair.refresh_token.exp - pair.refresh_token.iat

\* ------------------------------------------------------------------- C28
\* The stored Users linked to the external identity of a profile, and the
\* stored Users whose local identifier is the profile's email.
LinkedUsers(us, info) ==
    { i \in 1..Len(us) : LinkedTo(us[i], info.provider, info.provider_user_id) }

EmailUsers(us, info) ==
    { i \in 1..Len(us) : IsSome(info.email) /\ HasIdentifier(us[i], Unwrap(info.email)) }

\* C28: when the lookup by (provider, subject-id) finds a stored User while
\* another stored User has the profile's email as local identifier, the
\* request takes the exact-match branch and holds a linked User, not the
\* User of the email; the update of the exact-match branch changes no stored
\* User but the one with the held id, and the request returns the held User.
C28_ExactMatchWins ==
    [][ \A p \in Procs :
          /\ (/\ proc[p].pc = "oa_lookup_id"
              /\ Stepped(p)
              /\ LinkedUsers(users, Unwrap(proc[p].info)) # {}
              /\ \E j \in EmailUsers(users, Unwrap(proc[p].info)) :
                    j \notin LinkedUsers(users, Unwrap(proc[p].info)))
                 => /\ proc'[p].pc = "oa_update"
                    /\ proc'[p].branch = "exact"
                    /\ \E i \in LinkedUsers(users, Unwrap(proc[p].info)) :
                          /\ Unwrap(proc'[p].user).id = users[i].id
                          /\ Unwrap(proc'[p].user).credentials = users[i].credentials
          /\ (proc[p].pc = "oa_update" /\ proc[p].branch = "exact" /\ Stepped(p))
                 => /\ Len(users') = Len(users)
                    /\ \A k \in 1..Len(users) :
                          users[k].id # Unwrap(proc[p].user).id => users'[k] = users[k]
                    /\ proc'[p].status = "ok" =>
                          /\ proc'[p].ret_user = proc[p].user
                          /\ \E k \in 1..Len(users') : users'[k] = Unwrap(proc[p].user) ]_vars

\* C28 witness: User 1 has the local identifier alice@example.com and no
\* link, User 2 is linked to (Google, s1); an OAuth2 login with the profile
\* (Google, s1, alice@example.com) has returned User 2, and User 1 is as it
\* was.
C28_Witness ==
    \E p \in Procs :
        /\ proc[p].pc = "done"
        /\ proc[p].op \in OAuthOps
        /\ proc[p].branch = "exact"
        /\ proc[p].status = "ok"
        /\ Unwrap(proc[p].info).email = Some("alice@example.com")
        /\ Len(users) = 2
        /\ HasIdentifier(users[1], "alice@example.com")
        /\ users[1].oauth_accounts = NoAccounts
        /\ ~IsSome(users[2].credentials)
        /\ LinkedTo(users[2], proc[p].provider, Unwrap(proc[p].info).provider_user_id)
        /\ Unwrap(proc[p].ret_user).id = users[2].id

\* ------------------------------------------------------------------- C29
\* C29: an OAuth2 login or signup whose lookup by (provider, subject-id)
\* finds no User and whose profile has no email, or whose lookup by email
\* finds no User with exactly that identifier, takes the create branch; the
\* insert of the create branch, when it succeeds, appends exactly one User,
\* with an id no stored User has, no credentials and the presented link as
\* its only link, returns it, and leaves every stored User as it was.
C29_CreateNewUser ==
    [][ \A p \in Procs :
          /\ (/\ proc[p].pc = "oa_lookup_id"
              /\ Stepped(p)
              /\ LinkedUsers(users, Unwrap(proc[p].info)) = {}
              /\ ~IsSome(Unwrap(proc[p].info).email))
                 => proc'[p].pc = "oa_add" /\ proc'[p].branch = "new"
          /\ (/\ proc[p].pc = "oa_lookup_email"
              /\ Stepped(p)
              /\ EmailUsers(users, Unwrap(proc[p].info)) = {})
                 => proc'[p].pc = "oa_add" /\ proc'[p].branch = "new"
          /\ (proc[p].pc = "oa_add" /\ Stepped(p) /\ proc'[p].status = "ok")
                 => /\ Len(users') = Len(users) + 1
                    /\ SubSeq(users', 1, Len(users)) = users
                    /\ LET u == users'[Len(users')]
                           info == Unwrap(proc[p].info) IN
                       /\ u.id # User_default.id
                       /\ \A k \in 1..Len(users) : users[k].id # u.id
                       /\ u.credentials = None
                       /\ \A pr \in Providers :
                             IsSome(u.oauth_accounts[pr]) <=> pr = proc[p].provider
                       /\ LinkedTo(u, proc[p].provider, info.provider_user_id)
                       /\ proc'[p].ret_user = Some(u) ]_vars

\* C29 witness: the store held one User, with the local identifier
\* Alice@example.com; an OAuth2 request with the profile (s1,
\* alice@example.com), which differs from that identifier in case only, has
\* created User 2 and returned it.
C29_Witness ==
    \E p \in Procs :
        /\ proc[p].pc = "done"
        /\ proc[p].op \in OAuthOps
        /\ proc[p].branch = "new"
        /\ proc[p].status = "ok"
        /\ Unwrap(proc[p].info).email = Some("alice@example.com")
        /\ Len(users) = 2
        /\ HasIdentifier(users[1], "Alice@example.com")
        /\ users[1].oauth_accounts = NoAccounts
        /\ users[2].credentials = None
        /\ LinkedTo(users[2], proc[p].provider, "s1")
        /\ proc[p].ret_user = Some(users[2])

\* ------------------------------------------------------------------- C30
OtherOp(op) == IF op = "login_oauth2" THEN "signup_oauth2" ELSE "login_oauth2"

C31_TokensAfterPersist ==
    [][ \A p \in Procs :
          (Stepped(p) /\ proc[p].op \in OAuthOps /\ proc[p].pc \in {"oa_update", "oa_add"}) =>
             LET held == Unwrap(proc[p].user)
                 write == IF proc[p].pc = "oa_update" THEN "update_user" ELSE "add_user"
                 n == Len(proc'[p].calls)
             IN /\ proc'[p].pc = "done"
                /\ NoRepeat(proc'[p].calls)
                /\ IF proc'[p].status = "ok"
                   THEN /\ \E k \in 1..Len(users') : users'[k] = held
                        /\ proc'[p].tokens = Some(generate_token_pair(held.id, now))
                        /\ proc'[p].calls[n - 1] = write
                        /\ proc'[p].calls[n] = "generate_token_pair"
                   ELSE /\ proc'[p].status = "RepositoryError"
                        /\ proc'[p].ret_user = None
                        /\ proc'[p].tokens = None
                        /\ proc'[p].calls[n] = write
                        /\ \A i \in 1..n : proc'[p].calls[i] # "generate_token_pair"
                        /\ users' = users ]_vars

\* C31 witness: an OAuth2 signup that matched a stored User by email has
\* returned the failure of update_user: no token pair, and the stored User
\* still has no link.
C31_Witness ==
    \E p \in Procs :
        /\ proc[p].pc = "done"
        /\ proc[p].op = "signup_oauth2"
        /\ proc[p].branch = "email"
        /\ proc[p].status = "RepositoryError"
        /\ proc[p].tokens = None
        /\ proc[p].calls[Len(proc[p].calls)] = "update_user"
        /\ Len(users) = 1
        /\ users[1].oauth_accounts = NoAccounts

\* ------------------------------------------------------------------- C32
LoginSignupOps == {"login_credentials", "signup_credentials"} \cup OAuthOps

\* C32: a login or signup that returns Ok returns an access token that
\* validates and whose subject is the id of the returned User, which is the
\* id of a stored User; and get_user_from_token, called next with that
\* token, returns Ok with the stored User of that id.
C32_TokenRoundTrip ==
    [][ \A p \in Procs :
          /\ (Stepped(p) /\ proc'[p].pc = "done" /\ proc'[p].op \in LoginSignupOps
              /\ proc'[p].status = "ok")
                => LET access == Unwrap(proc'[p].tokens).access_token
                       out == get_user_from_token(users', access, now')
                   IN /\ validate_access_token(access, now').ok
                      /\ access.sub = Unwrap(proc'[p].ret_user).id
                      /\ out.status = "ok"
                      /\ Unwrap(out.ret_user).id = Unwrap(proc'[p].ret_user).id
          /\ (/\ proc[p].pc = "done"
              /\ proc[p].op \in LoginSignupOps
              /\ proc[p].status = "ok"
              /\ Starts(p, "get_user_from_token")
              /\ proc'[p].token = Some(Unwrap(proc[p].tokens).access_token))
                => /\ proc'[p].status = "ok"
                   /\ Unwrap(proc'[p].ret_user).id = Unwrap(proc[p].ret_user).id
                   /\ \E k \in 1..Len(users) : users[k] = Unwrap(proc'[p].ret_user) ]_vars

\* C32 witness: after a signup(Credentials) that made User 1 and an OAuth2
\* login or signup that made User 2, get_user_from_token on the access token
\* of User 2 has returned the stored User 2.
C32_Witness ==
    \E p \in Procs :
        /\ proc[p].pc = "done"
        /\ proc[p].op = "get_user_from_token"
        /\ proc[p].status = "ok"
        /\ opsStarted = 3
        /\ Len(users) = 2
        /\ IsSome(users[1].credentials)
        /\ users[2].oauth_accounts # NoAccounts
        /\ Unwrap(proc[p].token).sub = users[2].id
        /\ Unwrap(proc[p].token).iat = now
        /\ proc[p].ret_user = Some(users[2])

\* ------------------------------------------------------------------- C33
\* C33: when an OAuth2 login, an OAuth2 signup, a link_oauth_account or an
\* unlink_oauth_account returns Ok, the store holds a User with the id of
\* the returned User, and the stored User of that id is equal to the
\* returned one (credentials, links and the profile data of the links).
C33_ReturnedIsStored ==
    [][ \A p \in Procs :
          (/\ Stepped(p)
           /\ proc'[p].pc = "done"
           /\ proc'[p].op \in OAuthOps \cup {"link_oauth_account", "unlink_oauth_account"}
           /\ proc'[p].status = "ok")
             => LET ret == Unwrap(proc'[p].ret_user) IN
                /\ StoredWithId(users', ret.id) # {}
                /\ \A k \in StoredWithId(users', ret.id) : users'[k] = ret ]_vars

\* C33 witness: an OAuth2 login that matched the stored User by email has
\* returned it with the new link, and the stored User has that link.
C33_Witness ==
    \E p \in Procs :
        /\ proc[p].pc = "done"
        /\ proc[p].op = "login_oauth2"
        /\ proc[p].branch = "email"
        /\ proc[p].status = "ok"
        /\ Len(users) = 1
        /\ IsSome(users[1].credentials)
        /\ LinkedTo(users[1], proc[p].provider, "s1")
        /\ proc[p].ret_user = Some(users[1])

\* ------------------------------------------------------------------- C34
\* The operations that only read.
ReadOps ==
    {"login_credentials", "validate_access_token", "is_token_expired",
     "get_user_id_from_token", "get_user_from_token", "get_tokens",
     "get_linked_oauth_providers"}

\* C34: a login(Credentials), validate_access_token, is_token_expired,
\* get_user_id_from_token, get_user_from_token, get_tokens or
\* get_linked_oauth_providers request runs from its call to its return
\* without changing the User store, whether it returns Ok or an error.
C34_ReadOnly ==
    [][ \A p \in Procs :
          (\E op \in ReadOps : Starts(p, op))
             => /\ proc'[p].pc = "done"
                /\ users' = users ]_vars

\* C34 witness: get_linked_oauth_providers has reported the one link of a
\* stored User that also has credentials, and the User still has the link.
C34_Witness ==
    \E p \in Procs :
        /\ proc[p].pc = "done"
        /\ proc[p].op = "get_linked_oauth_providers"
        /\ proc[p].status = "ok"
        /\ proc[p].ret = Some({"Google"})
        /\ Len(users) = 1
        /\ users[1].id = proc[p].user_id
        /\ IsSome(users[1].credentials)
        /\ IsSome(users[1].oauth_accounts["Google"])

\* ------------------------------------------------------------------- C35
\* C35: the write of a link_oauth_account, an unlink_oauth_account or an
\* OAuth2 login or signup that succeeds changes, on the stored User it
\* writes, no link but the one of its own provider: the link change another
\* request made to that User for another provider, after this request read
\* the User, is still there.
C35_NoLostLinkChange ==
    [][ \A p \in Procs :
          (/\ Stepped(p)
           /\ proc[p].pc \in {"lk_update", "ul_update", "oa_update"}
           /\ proc'[p].status = "ok")
             => \A k \in StoredWithId(users, Unwrap(proc[p].user).id) :
                   \A pr \in Providers \ {proc[p].provider} :
                      users'[k].oauth_accounts[pr] = users[k].oauth_accounts[pr] ]_vars

\* ------------------------------------------------------------------- C36
\* C36: in every reachable state every link stored on a User has, in its
\* user_id field, the internal id of that User.
C36_LinkUserId ==
    \A i \in 1..Len(users) :
        \A pr \in Providers :
            IsSome(users[i].oauth_accounts[pr])
                => Unwrap(users[i].oauth_accounts[pr]).user_id = users[i].id

\* ------------------------------------------------------------------- C37
\* The profile with another value of the verified-email flag.
WithFlag(info, v) == [info EXCEPT !.verified_email = v]

\* A User whose link at the provider has another value of the flag, and a
\* store with the flag of every link taken out.
HeldWithFlag(user, provider, v) ==
    [user EXCEPT !.oauth_accounts[provider] = Some(WithFlag(Unwrap(@), v))]

EraseFlags(us) ==
    [i \in 1..Len(us) |->
        [us[i] EXCEPT !.oauth_accounts =
            [pr \in Providers |->
                IF IsSome(us[i].oauth_accounts[pr])
                THEN Some(WithFlag(Unwrap(us[i].oauth_accounts[pr]), None))
                ELSE None]]]

\* C37: at each lookup of an OAuth2 login or signup, the profile with any
\* other value of the verified-email flag finds the same User on the same
\* store and sends the request to the same branch, holding the same User
\* with the same links but for the flag inside the new link; the write
\* that follows leaves the same Users and links, but for that flag.
C37_FlagIndependent ==
    [][ \A p \in Procs : \A v \in VerifiedFlags :
          /\ (proc[p].pc = "oa_lookup_id" /\ Stepped(p)) =>
                LET info == WithFlag(Unwrap(proc[p].info), v)
                    e == get_user_by_oauth_id(users, proc[p].provider, info.provider_user_id)
                    b == oauth2_by_id(proc[p].op, e, info.email)
                IN /\ b = "exact" =>
                        /\ proc'[p].pc = "oa_update" /\ proc'[p].branch = "exact"
                        /\ oauth_accounts_insert(Unwrap(e), proc[p].provider, info)
                             = oauth_accounts_insert(Unwrap(proc'[p].user), proc[p].provider, info)
                   /\ b = "lookup_email" => proc'[p].pc = "oa_lookup_email"
                   /\ b = "new" => proc'[p].pc = "oa_add" /\ proc'[p].branch = "new"
          /\ (proc[p].pc = "oa_lookup_email" /\ Stepped(p)) =>
                LET info == WithFlag(Unwrap(proc[p].info), v)
                    e == existing_user_by_email(users, info)
                    b == oauth2_by_email(proc[p].op, e)
                IN /\ b = "email" =>
                        /\ proc'[p].pc = "oa_update" /\ proc'[p].branch = "email"
                        /\ oauth_accounts_insert(Unwrap(e), proc[p].provider, info)
                             = oauth_accounts_insert(Unwrap(proc'[p].user), proc[p].provider, info)
                   /\ b = "new" => proc'[p].pc = "oa_add" /\ proc'[p].branch = "new"
          /\ (proc[p].pc = "oa_update" /\ Stepped(p) /\ proc'[p].status = "ok") =>
                EraseFlags(users') =
                    EraseFlags(update_user(users,
                        HeldWithFlag(Unwrap(proc[p].user), proc[p].provider, v)).users)
          /\ (proc[p].pc = "oa_add" /\ Stepped(p) /\ proc'[p].status = "ok") =>
                EraseFlags(users') =
                    EraseFlags(add_user(users,
                        HeldWithFlag(Unwrap(proc[p].user), proc[p].provider, v)).users) ]_vars

\* C37 witness: an OAuth2 login whose profile says the email is not verified
\* has been merged by email into the stored User that has this identifier.
C37_Witness ==
    \E p \in Procs :
        /\ proc[p].pc = "done"
        /\ proc[p].op = "login_oauth2"
        /\ proc[p].branch = "email"
        /\ proc[p].status = "ok"
        /\ Unwrap(proc[p].info).verified_email = Some(FALSE)
        /\ Len(users) = 1
        /\ HasIdentifier(users[1], "alice@example.com")
        /\ LinkedTo(users[1], proc[p].provider, "s1")
        /\ Unwrap(users[1].oauth_accounts[proc[p].provider]).verified_email = Some(FALSE)

\* ------------------------------------------------------------------- C38
\* C38: a signup(Credentials) with the empty password returns in its first
\* step with the password manager's error InvalidPassword, having called
\* hash_password and nothing of the store; it returns no User and no token
\* pair, and the store is as it was.
C38_EmptyPasswordSignup ==
    [][ \A p \in Procs :
          (Starts(p, "signup_credentials") /\ proc'[p].password = "") =>
              /\ proc'[p].pc = "done"
              /\ proc'[p].status = "InvalidPassword"
              /\ proc'[p].ret_user = None
              /\ proc'[p].tokens = None
              /\ proc'[p].calls = << "hash_password" >>
              /\ users' = users ]_vars

\* C38 witness: a signup with the empty password has failed with
\* InvalidPassword, on a store that holds the User of an earlier signup.
C38_Witness ==
    \E p \in Procs :
        /\ proc[p].pc = "done"
        /\ proc[p].op = "signup_credentials"
        /\ proc[p].password = ""
        /\ proc[p].status = "InvalidPassword"
        /\ proc[p].tokens = None
        /\ Len(users) = 1

\* ------------------------------------------------------------------- C39
\* The hashes a store can hold: none (the empty string) or the hash of a
\* password that is not empty.
StoredHashes == {None} \cup { Some(pw) : pw \in Passwords \ {""} }

\* C39: a login(Credentials) whose verifier returned an error fails with
\* PasswordVerificationError, with no User and no token pair, and only such
\* a login fails so; a login with the empty password for a User that has
\* credentials gets false from the verifier, whatever the hasher would do,
\* and fails with InvalidCredentials; and the Argon2 verifier answers
\* Ok(false) for every empty password and every empty hash.
C39_VerifierErrorOrFalse ==
    [][ /\ \A p \in Procs :
             Starts(p, "login_credentials") =>
                 LET r == proc'[p]
                     held == { i \in 1..Len(users) : HasIdentifier(users[i], r.identifier) }
                     first == CHOOSE i \in held : \A j \in held : i <= j
                 IN /\ r.pc = "done"
                    /\ r.is_valid = "Err" =>
                          /\ r.status = "PasswordVerificationError"
                          /\ r.ret_user = None
                          /\ r.tokens = None
                    /\ r.status = "PasswordVerificationError" => r.is_valid = "Err"
                    /\ ( /\ held # {}
                         /\ IsSome(users[first].credentials)
                         /\ r.password = "" )
                       => /\ r.is_valid = "false"
                          /\ r.status = "InvalidCredentials"
                          /\ r.tokens = None
        /\ \A pw \in Passwords, h \in StoredHashes, f \in BOOLEAN :
             (pw = "" \/ h = None)
                 => verify_password(pw, h, f) = [ok |-> TRUE, err |-> "none", valid |-> FALSE]
      ]_vars

\* C39 witness: a login with the identifier and the password of a stored
\* User, whose verifier returned an error, has failed with
\* PasswordVerificationError and no tokens.
C39_Witness ==
    \E p \in Procs :
        /\ proc[p].pc = "done"
        /\ proc[p].op = "login_credentials"
        /\ proc[p].is_valid = "Err"
        /\ proc[p].status = "PasswordVerificationError"
        /\ proc[p].tokens = None
        /\ \E i \in 1..Len(users) :
              /\ HasIdentifier(users[i], proc[p].identifier)
              /\ Unwrap(users[i].credentials).password_hash = Some(proc[p].password)
====
